---- MODULE Spec2Model ----
(***************************************************************************)
(* Holo: reconciliation of live configuration files against repository     *)
(* definitions.  Two generations of the tool are modelled over the same    *)
(* abstract file system:                                                   *)
(*   tool = "holo-apply"  the self-contained first tool (main/walkRepo)    *)
(*   tool = "holo"        the layered tool (main.go, common/fileio.go)     *)
(* A file is a record; every managed target path t owns a slot holding the *)
(* live target, its backup and the package manager's side-car artifact.   *)
(***************************************************************************)
EXTENDS Integers, Sequences, FiniteSets, TLC

\* the latest mtime a behaviour hands out; the clock starts at 1
MaxClock == 3

\* ioutil.WriteFile(toPath, data, 0600)
WriteFilePerm == 384

\* the managed target paths, in lexical order
TargetSeq == <<"/etc/a.conf", "/etc/b.conf">>
Targets == {TargetSeq[i] : i \in 1..Len(TargetSeq)}

VARIABLES
    tool,            \* which generation of the tool is installed
    nested,          \* the second target is installed at the side-car path of the first
    walked,          \* the repository entry the walk visited last, and the paths derived from it
    scanned,         \* the scan report a plugin printed last, and what Scan returned for it
    group,           \* the group the repository declares, and its line in /etc/group
    clock,           \* the latest mtime handed out
    fs,              \* [Targets -> slot]: target, backup, side-car
    repo,            \* [Targets -> sequence of repository files, sorted by path]
    repoRoot,        \* what is found at the repository root
    repoUnreadable,  \* targets whose repository subtree cannot be read
    lastWriter,      \* history: who wrote the target last, once the engine has written it
    reconciled,      \* history: "no" apply was run on the target, one was "tried", or one ended Applied ("yes")
    report           \* history: what the last invocation did, entry by entry

vars == <<tool, nested, walked, scanned, group, clock, fs, repo, repoRoot, repoUnreadable, lastWriter, reconciled, report>>

-----------------------------------------------------------------------------
(* Files                                                                   *)

NoFile == [kind |-> "none", content |-> <<>>, mode |-> 0, uid |-> 0, gid |-> 0, mtime |-> 0]

RegularFile(c, m, u, g, t) ==
    [kind |-> "file", content |-> c, mode |-> m, uid |-> u, gid |-> g, mtime |-> t]

NoFault == [entry |-> 0, site |-> "none", op |-> "none"]

\* the operation of a copy at which the injected I/O failure strikes
FailAt(fault, site) == IF fault.site = site THEN fault.op ELSE "none"

\* variant: a write into an existing file leaves its mtime alone
WriteFileKeepsMtime(to, data, perm, now) ==
    CASE to.kind = "none" ->
            [ok |-> TRUE, file |-> RegularFile(data, perm, 0, 0, now)]
      [] to.kind = "file" -> [ok |-> TRUE, file |-> [to EXCEPT !.content = data]]
      [] to.kind = "symlink" -> [ok |-> TRUE, file |-> to]
      [] OTHER -> [ok |-> FALSE, file |-> to]

\* ioutil.WriteFile: creates the file with the given permissions, or
\* truncates an existing one keeping its mode and owner; the write through
\* a symlink lands on the link's referent, a directory cannot be written
WriteFile(to, data, perm, now) ==
    CASE to.kind = "none" ->
            [ok |-> TRUE, file |-> RegularFile(data, perm, 0, 0, now)]
      [] to.kind = "file" ->
            [ok |-> TRUE, file |-> [to EXCEPT !.content = data, !.mtime = now]]
      [] to.kind = "symlink" -> [ok |-> TRUE, file |-> to]
      [] OTHER -> [ok |-> FALSE, file |-> to]

\* one path, one file: when the second target is installed at the side-car
\* path of the first, what is written to the one slot shows in the other
Synced(f, t) ==
    IF ~nested THEN f
    ELSE IF t = TargetSeq[1]
    THEN [f EXCEPT ![TargetSeq[2]].target = f[TargetSeq[1]].sidecar]
    ELSE IF t = TargetSeq[2]
    THEN [f EXCEPT ![TargetSeq[1]].sidecar = f[TargetSeq[2]].target]
    ELSE f

\* the file system with the slot of target t replaced
Put(f, t, slot) == Synced([f EXCEPT ![t] = slot], t)

-----------------------------------------------------------------------------
(* The first tool: holo-apply                                              *)

isRegularFile(f) == f.kind = "file"

isNewerThan(f1, f2) == f1.mtime > f2.mtime

\* variant: the source's mtime is not carried over to the copy
copyFileMetadataNoMtime(from, f, failAt) ==
    IF failAt = "Chmod" THEN [err |-> TRUE, to |-> f]
    ELSE IF failAt = "Chown" THEN [err |-> TRUE, to |-> [f EXCEPT !.mode = from.mode]]
    ELSE [err |-> failAt = "Chtimes",
          to |-> [f EXCEPT !.mode = from.mode, !.uid = from.uid, !.gid = from.gid]]

\* the second half of copyFileImpl: os.Chmod, os.Chown, os.Chtimes with the
\* source's values, applied to the freshly written file f
copyFileMetadata(from, f, failAt) ==
    IF failAt = "Chmod" THEN [err |-> TRUE, to |-> f]
    ELSE IF failAt = "Chown" THEN [err |-> TRUE, to |-> [f EXCEPT !.mode = from.mode]]
    ELSE IF failAt = "Chtimes"
    THEN [err |-> TRUE,
          to |-> [f EXCEPT !.mode = from.mode, !.uid = from.uid, !.gid = from.gid]]
    ELSE [err |-> FALSE,
          to |-> [f EXCEPT !.mode = from.mode, !.uid = from.uid, !.gid = from.gid,
                           !.mtime = from.mtime]]

copyFileWritten(from, to, w, failAt) ==
    IF failAt = "WriteFile" \/ ~w.ok THEN [err |-> TRUE, to |-> to]
    ELSE copyFileMetadata(from, w.file, failAt)

\* copyFile/copyFileImpl: content, then mode, owner and mtime of the source
copyFile(from, to, failAt, now) ==
    IF failAt = "ReadFile" \/ from.kind # "file"
    THEN [err |-> TRUE, to |-> to]
    ELSE copyFileWritten(from, to, WriteFile(to, from.content, WriteFilePerm, now), failAt)

applyCopy(repoFile, target, failAt, now) == copyFile(repoFile, target, failAt, now)

applyProgram(repoFile, target, failAt, now) == [err |-> FALSE, to |-> target]

Result(s, ret, outcome, saved, absorbed, checked, wrote) ==
    [slot |-> s, ret |-> ret, outcome |-> outcome, saved |-> saved,
     absorbed |-> absorbed, checked |-> checked, fix |-> FALSE, wrote |-> wrote]

\* variant: a successful installation also refreshes the backup from the target
walkRepoInstalledRefreshing(c, e, ap) ==
    Result(IF ap.err THEN [c.slot EXCEPT !.target = ap.to]
                     ELSE [c.slot EXCEPT !.target = ap.to, !.backup = ap.to],
           "nil",
           IF ap.err THEN "SkippedError" ELSE "Applied",
           c.skipIntegrityCheck, c.absorbed, ~c.skipIntegrityCheck,
           ~ap.err /\ ~e.holoscript)

\* step 3 and the installation, on the state c left by step 2.5
walkRepoInstalled(c, e, ap) ==
    Result([c.slot EXCEPT !.target = ap.to], "nil",
           IF ap.err THEN "SkippedError" ELSE "Applied",
           c.skipIntegrityCheck, c.absorbed, ~c.skipIntegrityCheck,
           ~ap.err /\ ~e.holoscript)

\* variant: a failed backup or absorption does not stop the installation
walkRepoInstalledDespite(c, e, ap) ==
    Result([c.slot EXCEPT !.target = ap.to], "nil",
           IF c.err \/ ap.err THEN "SkippedError" ELSE "Applied",
           c.skipIntegrityCheck, c.absorbed, ~c.skipIntegrityCheck,
           ~c.err /\ ~ap.err /\ ~e.holoscript)

walkRepoStep3Proceeds(c, e, fault, now) ==
    IF ~c.err /\ ~c.skipIntegrityCheck /\ isNewerThan(c.slot.target, e.file)
    THEN Result(c.slot, "nil", "SkippedUserModified", FALSE, c.absorbed, TRUE, FALSE)
    ELSE walkRepoInstalledDespite(c, e,
            IF e.holoscript
            THEN applyProgram(e.file, c.slot.target, FailAt(fault, "install"), now)
            ELSE applyCopy(e.file, c.slot.target, FailAt(fault, "install"), now))

walkRepoStep3(c, e, fault, now) ==
    IF c.err
    THEN Result(c.slot, "nil", "SkippedError", c.skipIntegrityCheck, FALSE, FALSE, FALSE)
    ELSE IF ~c.skipIntegrityCheck /\ isNewerThan(c.slot.target, e.file)
    THEN Result(c.slot, "nil", "SkippedUserModified", FALSE, c.absorbed, TRUE, FALSE)
    ELSE walkRepoInstalled(c, e,
            IF e.holoscript
            THEN applyProgram(e.file, c.slot.target, FailAt(fault, "install"), now)
            ELSE applyCopy(e.file, c.slot.target, FailAt(fault, "install"), now))

\* variant: after a .pacnew was copied the integrity check of step 3 is made
walkRepoPacnewSavedChecking(b, cp, fault) ==
    [slot |-> [b.slot EXCEPT !.backup = cp.to,
                             !.sidecar = IF cp.err \/ FailAt(fault, "absorb") = "Remove"
                                         THEN @ ELSE NoFile],
     err |-> cp.err, skipIntegrityCheck |-> FALSE, absorbed |-> ~cp.err]

\* variant: the .pacnew is copied but left in place
walkRepoPacnewSavedKept(b, cp, fault) ==
    [slot |-> [b.slot EXCEPT !.backup = cp.to],
     err |-> cp.err, skipIntegrityCheck |-> b.skipIntegrityCheck, absorbed |-> ~cp.err]

\* variant: a .pacnew that cannot be removed ends the entry
walkRepoPacnewSavedStrict(b, cp, fault) ==
    [slot |-> [b.slot EXCEPT !.backup = cp.to,
                             !.sidecar = IF cp.err \/ FailAt(fault, "absorb") = "Remove"
                                         THEN @ ELSE NoFile],
     err |-> cp.err \/ FailAt(fault, "absorb") = "Remove",
     skipIntegrityCheck |-> b.skipIntegrityCheck, absorbed |-> ~cp.err]

\* step 2.5 on the state b left by step 2: a .pacnew next to the target is
\* copied over the backup and removed (the removal may fail silently)
walkRepoPacnewSaved(b, cp, fault) ==
    [slot |-> [b.slot EXCEPT !.backup = cp.to,
                             !.sidecar = IF cp.err \/ FailAt(fault, "absorb") = "Remove"
                                         THEN @ ELSE NoFile],
     err |-> cp.err, skipIntegrityCheck |-> b.skipIntegrityCheck, absorbed |-> ~cp.err]

\* variant: step 3's check is made before the .pacnew is looked at
walkRepoStep25CheckFirst(b, e, fault, now) ==
    IF b.err
    THEN Result(b.slot, "nil", "SkippedError", FALSE, FALSE, FALSE, FALSE)
    ELSE IF ~b.skipIntegrityCheck /\ isNewerThan(b.slot.target, e.file)
    THEN Result(b.slot, "nil", "SkippedUserModified", FALSE, FALSE, TRUE, FALSE)
    ELSE walkRepoStep3(
            IF isRegularFile(b.slot.sidecar)
            THEN walkRepoPacnewSaved(b,
                    copyFile(b.slot.sidecar, b.slot.backup, FailAt(fault, "absorb"), now), fault)
            ELSE [slot |-> b.slot, err |-> FALSE,
                  skipIntegrityCheck |-> b.skipIntegrityCheck, absorbed |-> FALSE],
            e, fault, now)

walkRepoStep25(b, e, fault, now) ==
    IF b.err
    THEN Result(b.slot, "nil", "SkippedError", FALSE, FALSE, FALSE, FALSE)
    ELSE walkRepoStep3(
            IF isRegularFile(b.slot.sidecar)
            THEN walkRepoPacnewSaved(b,
                    copyFile(b.slot.sidecar, b.slot.backup, FailAt(fault, "absorb"), now), fault)
            ELSE [slot |-> b.slot, err |-> FALSE,
                  skipIntegrityCheck |-> b.skipIntegrityCheck, absorbed |-> FALSE],
            e, fault, now)

\* variant: the integrity check is not skipped after the backup was made
walkRepoBackupSavedChecked(s, cp) ==
    [slot |-> [s EXCEPT !.backup = cp.to], err |-> cp.err, skipIntegrityCheck |-> FALSE]

\* step 2: without a backup, the file at the target is the original
walkRepoBackupSaved(s, cp) ==
    [slot |-> [s EXCEPT !.backup = cp.to], err |-> cp.err, skipIntegrityCheck |-> TRUE]

\* variant: step 2 saves the file at the target on every run
walkRepoStep2Always(s, fault, now) ==
    IF FailAt(fault, "backup") = "MkdirAll"
    THEN [slot |-> s, err |-> TRUE, skipIntegrityCheck |-> TRUE]
    ELSE [slot |-> [s EXCEPT !.backup = copyFile(s.target, s.backup,
                                                  FailAt(fault, "backup"), now).to],
          err |-> copyFile(s.target, s.backup, FailAt(fault, "backup"), now).err,
          skipIntegrityCheck |-> ~isRegularFile(s.backup)]

\* variant: step 2 never makes the backup
walkRepoStep2NoBackup(s, fault, now) ==
    [slot |-> s, err |-> FALSE, skipIntegrityCheck |-> ~isRegularFile(s.backup)]

walkRepoStep2(s, fault, now) ==
    IF isRegularFile(s.backup)
    THEN [slot |-> s, err |-> FALSE, skipIntegrityCheck |-> FALSE]
    ELSE IF FailAt(fault, "backup") = "MkdirAll"
    THEN [slot |-> s, err |-> TRUE, skipIntegrityCheck |-> TRUE]
    ELSE walkRepoBackupSaved(s, copyFile(s.target, s.backup, FailAt(fault, "backup"), now))

\* variant: a missing target is installed afresh instead of being refused
walkRepoMissingInstalls(s, e, fault, now) ==
    IF e.err THEN Result(s, "err", "none", FALSE, FALSE, FALSE, FALSE)
    ELSE IF e.file.kind # "file" THEN Result(s, "nil", "none", FALSE, FALSE, FALSE, FALSE)
    ELSE IF ~isRegularFile(s.target)
    THEN walkRepoStep3([slot |-> s, err |-> FALSE, skipIntegrityCheck |-> TRUE,
                        absorbed |-> FALSE], e, fault, now)
    ELSE walkRepoStep25(walkRepoStep2(s, fault, now), e, fault, now)

\* variant: a .pacnew is moved to the backup before the target is looked at
walkRepoAbsorbsFirst(s, e, fault, now) ==
    IF e.err THEN Result(s, "err", "none", FALSE, FALSE, FALSE, FALSE)
    ELSE IF e.file.kind # "file" THEN Result(s, "nil", "none", FALSE, FALSE, FALSE, FALSE)
    ELSE IF ~isRegularFile(s.target)
    THEN Result(IF isRegularFile(s.sidecar)
                THEN [s EXCEPT !.backup = copyFile(s.sidecar, s.backup, "none", now).to,
                               !.sidecar = NoFile]
                ELSE s,
                "nil", "SkippedError", FALSE, isRegularFile(s.sidecar), FALSE, FALSE)
    ELSE walkRepoStep25(walkRepoStep2(s, fault, now), e, fault, now)

\* walkRepo, the filepath.Walk callback, for repository entry e whose target
\* owns slot s.  ret is the callback's return value ("err" stops the walk);
\* outcome "none" means the entry was passed over without a report.
walkRepo(s, e, fault, now) ==
    IF e.err THEN Result(s, "err", "none", FALSE, FALSE, FALSE, FALSE)
    ELSE IF e.file.kind # "file" THEN Result(s, "nil", "none", FALSE, FALSE, FALSE, FALSE)
    ELSE IF ~isRegularFile(s.target)
    THEN Result(s, "nil", "SkippedError", FALSE, FALSE, FALSE, FALSE)
    ELSE walkRepoStep25(walkRepoStep2(s, fault, now), e, fault, now)

\* the entries filepath.Walk hands to the callback, in lexical order: the
\* repository files of each target, or an error for an unreadable subtree
RECURSIVE WalkEntries(_, _, _)
WalkEntries(rp, unreadable, i) ==
    IF i > Len(TargetSeq) THEN <<>>
    ELSE (IF TargetSeq[i] \in unreadable
          THEN <<[t |-> TargetSeq[i], err |-> TRUE, holoscript |-> FALSE, file |-> NoFile]>>
          ELSE [k \in 1..Len(rp[TargetSeq[i]]) |->
                  [t |-> TargetSeq[i], err |-> FALSE,
                   holoscript |-> rp[TargetSeq[i]][k].holoscript,
                   file |-> rp[TargetSeq[i]][k].file]])
         \o WalkEntries(rp, unreadable, i + 1)

ReportEntry(t, kind, pre, r, fault) ==
    [target |-> t, kind |-> kind, pre |-> pre, post |-> r.slot, outcome |-> r.outcome,
     saved |-> r.saved, absorbed |-> r.absorbed, checked |-> r.checked, fix |-> r.fix,
     wrote |-> r.wrote, fault |-> fault, calls |-> <<>>]

\* filepath.Walk("/holo/repo", walkRepo): stops at the first error returned
RECURSIVE Walk(_, _, _, _, _, _)
RECURSIVE WalkVisited(_, _, _, _, _, _, _)
\* variant: without the recover, a failing entry ends the walk
WalkVisitedStops(E, i, cur, entries, fault, now, r) ==
    IF r.ret = "err" THEN [fs |-> cur, entries |-> entries, aborted |-> TRUE]
    ELSE IF r.outcome = "none" THEN Walk(E, i + 1, cur, entries, fault, now)
    ELSE IF r.outcome \in {"SkippedError", "SkippedUserModified"}
    THEN [fs |-> Put(cur, E[i].t, r.slot),
          entries |-> Append(entries, ReportEntry(E[i].t, "file", cur[E[i].t], r,
                                          IF fault.entry = i THEN fault ELSE NoFault)),
          aborted |-> TRUE]
    ELSE Walk(E, i + 1, Put(cur, E[i].t, r.slot),
              Append(entries, ReportEntry(E[i].t, "file", cur[E[i].t], r,
                                          IF fault.entry = i THEN fault ELSE NoFault)),
              fault, now)

WalkVisited(E, i, cur, entries, fault, now, r) ==
    IF r.ret = "err" THEN [fs |-> cur, entries |-> entries, aborted |-> TRUE]
    ELSE IF r.outcome = "none" THEN Walk(E, i + 1, cur, entries, fault, now)
    ELSE Walk(E, i + 1, Put(cur, E[i].t, r.slot),
              Append(entries, ReportEntry(E[i].t, "file", cur[E[i].t], r,
                                          IF fault.entry = i THEN fault ELSE NoFault)),
              fault, now)

Walk(E, i, cur, entries, fault, now) ==
    IF i > Len(E) THEN [fs |-> cur, entries |-> entries, aborted |-> FALSE]
    ELSE WalkVisited(E, i, cur, entries, fault, now,
            walkRepo(cur[E[i].t], E[i], IF fault.entry = i THEN fault ELSE NoFault, now))

-----------------------------------------------------------------------------
(* The layered tool: common/fileio.go                                      *)

IsFileInfoASymbolicLink(f) == f.kind = "symlink"

IsManageableFile(f) == f.kind = "file" \/ IsFileInfoASymbolicLink(f)

\* variant: the mtime of a symlink is compared like that of a regular file
IsNewerThanByMtime(f1, f2) ==
    IF f1.kind = "none" \/ f2.kind = "none" THEN [newer |-> FALSE, err |-> TRUE]
    ELSE [newer |-> f1.mtime > f2.mtime, err |-> FALSE]

\* (bool, error) of IsNewerThan(path1, path2)
IsNewerThan(f1, f2) ==
    IF f1.kind = "none" \/ f2.kind = "none" THEN [newer |-> FALSE, err |-> TRUE]
    ELSE IF IsFileInfoASymbolicLink(f1) THEN [newer |-> FALSE, err |-> FALSE]
    ELSE [newer |-> f1.mtime > f2.mtime, err |-> FALSE]

\* variant: the owner and group are not carried over
ApplyFilePermissionsNoChown(from, to, failAt) ==
    IF from.kind = "none" \/ to.kind = "none" THEN [err |-> TRUE, to |-> to]
    ELSE IF IsFileInfoASymbolicLink(to) THEN [err |-> FALSE, to |-> to]
    ELSE IF failAt = "Chmod" THEN [err |-> TRUE, to |-> to]
    ELSE IF failAt \in {"Chown", "Chtimes"}
    THEN [err |-> TRUE, to |-> [to EXCEPT !.mode = from.mode]]
    ELSE [err |-> FALSE, to |-> [to EXCEPT !.mode = from.mode, !.mtime = from.mtime]]

ApplyFilePermissions(from, to, failAt) ==
    IF from.kind = "none" \/ to.kind = "none" THEN [err |-> TRUE, to |-> to]
    ELSE IF IsFileInfoASymbolicLink(to) THEN [err |-> FALSE, to |-> to]
    ELSE IF failAt = "Chmod" THEN [err |-> TRUE, to |-> to]
    ELSE IF failAt = "Chown" THEN [err |-> TRUE, to |-> [to EXCEPT !.mode = from.mode]]
    ELSE IF failAt = "Chtimes"
    THEN [err |-> TRUE,
          to |-> [to EXCEPT !.mode = from.mode, !.uid = from.uid, !.gid = from.gid]]
    ELSE [err |-> FALSE,
          to |-> [to EXCEPT !.mode = from.mode, !.uid = from.uid, !.gid = from.gid,
                            !.mtime = from.mtime]]

\* variant: the copy ends with the content written
copyFileImplWrittenOnly(from, to, w, failAt) ==
    IF failAt = "WriteFile" \/ ~w.ok THEN [err |-> TRUE, to |-> to]
    ELSE [err |-> FALSE, to |-> w.file]

\* variant: the metadata is applied whether or not the content was written
copyFileImplWrittenRegardless(from, to, w, failAt) ==
    IF failAt = "WriteFile" \/ ~w.ok
    THEN [err |-> TRUE, to |-> ApplyFilePermissions(from, to, "none").to]
    ELSE ApplyFilePermissions(from, w.file, failAt)

\* what follows ioutil.WriteFile in copyFileImpl
copyFileImplWritten(from, to, w, failAt) ==
    IF failAt = "WriteFile" \/ ~w.ok THEN [err |-> TRUE, to |-> to]
    ELSE ApplyFilePermissions(from, w.file, failAt)

copyFileImpl(from, to, failAt, now) ==
    IF failAt = "ReadFile" \/ from.kind # "file"
    THEN [err |-> TRUE, to |-> to]
    ELSE copyFileImplWritten(from, to,
            WriteFile(to, from.content, WriteFilePerm, now), failAt)

copySymlinkImpl(from, to, failAt, now) ==
    IF failAt = "ReadFile" \/ ~IsFileInfoASymbolicLink(from)
    THEN [err |-> TRUE, to |-> to]
    ELSE IF failAt = "WriteFile"
    THEN [err |-> TRUE, to |-> IF IsManageableFile(to) THEN NoFile ELSE to]
    ELSE IF to.kind # "none" /\ ~IsManageableFile(to)
    THEN [err |-> TRUE, to |-> to]
    ELSE [err |-> FALSE,
          to |-> [kind |-> "symlink", content |-> from.content, mode |-> 511,
                  uid |-> 0, gid |-> 0, mtime |-> now]]

CopyFile(from, to, failAt, now) ==
    IF from.kind = "none" THEN [err |-> TRUE, to |-> to]
    ELSE IF from.kind = "file" THEN copyFileImpl(from, to, failAt, now)
    ELSE copySymlinkImpl(from, to, failAt, now)

-----------------------------------------------------------------------------
(* The layered tool: package files (scanner, backup store, compositor)     *)

Strategy(rf) == IF rf.holoscript THEN "ExternalProgram" ELSE "Copy"

\* the repository path of a file of one target as a sequence of path
\* pieces: the path shared with the target, then the strategy suffix
RepoPath(rf) == IF rf.holoscript THEN <<1, 2>> ELSE <<1>>

\* lexicographic order of two paths
RECURSIVE PathLess(_, _, _)
PathLess(p, q, i) ==
    IF i > Len(q) THEN FALSE
    ELSE IF i > Len(p) THEN TRUE
    ELSE IF p[i] # q[i] THEN p[i] < q[i]
    ELSE PathLess(p, q, i + 1)

\* rf put in its place in a sequence sorted by repository path
RECURSIVE InsertLayer(_, _, _)
InsertLayer(sorted, rf, i) ==
    IF i > Len(sorted) THEN Append(sorted, rf)
    ELSE IF PathLess(RepoPath(rf), RepoPath(sorted[i]), 1)
    THEN SubSeq(sorted, 1, i - 1) \o <<rf>> \o SubSeq(sorted, i, Len(sorted))
    ELSE InsertLayer(sorted, rf, i + 1)

RECURSIVE SortLayersFrom(_, _, _)
SortLayersFrom(found, i, sorted) ==
    IF i > Len(found) THEN sorted
    ELSE SortLayersFrom(found, i + 1, InsertLayer(sorted, found[i], 1))

\* variant: the repository files stay in the order the directory gave them
SortLayersAsFound(found) == found

\* the repository files of one target sorted by repository path
SortLayers(found) == SortLayersFrom(found, 1, <<>>)

\* the regular repository files of target t, ordered by repository path
Layers(rp, t) == SortLayers(SelectSeq(rp[t], LAMBDA rf : rf.file.kind = "file"))

\* variant: every backup found is reported as orphaned
ScanRepoAllBackups(f, rp, root, unreadable) ==
    IF root # "dir" \/ unreadable # {}
    THEN [nil |-> TRUE, configFiles |-> <<>>, orphanedBackupFiles |-> <<>>]
    ELSE [nil |-> FALSE,
          configFiles |-> SelectSeq(TargetSeq, LAMBDA t : Len(Layers(rp, t)) > 0),
          orphanedBackupFiles |-> SelectSeq(TargetSeq, LAMBDA t : f[t].backup.kind # "none")]

\* ScanRepo: the config files (targets with at least one layer) and the
\* backups without a config file; nil on an unreadable repository
ScanRepo(f, rp, root, unreadable) ==
    IF root # "dir" \/ unreadable # {}
    THEN [nil |-> TRUE, configFiles |-> <<>>, orphanedBackupFiles |-> <<>>]
    ELSE [nil |-> FALSE,
          configFiles |-> SelectSeq(TargetSeq, LAMBDA t : Len(Layers(rp, t)) > 0),
          orphanedBackupFiles |->
              SelectSeq(TargetSeq, LAMBDA t : f[t].backup.kind # "none"
                                              /\ Len(Layers(rp, t)) = 0)]

\* render: the backup's content folded through the layers in order
RECURSIVE Render(_, _, _, _)
Render(acc, layers, i, failAt) ==
    IF i > Len(layers) THEN [err |-> FALSE, content |-> acc]
    ELSE IF Strategy(layers[i]) = "Copy"
    THEN IF failAt = "ReadFile" THEN [err |-> TRUE, content |-> acc]
         ELSE Render(layers[i].file.content, layers, i + 1, failAt)
    ELSE IF failAt = "Exit" THEN [err |-> TRUE, content |-> acc]
         ELSE Render(acc \o layers[i].file.content, layers, i + 1, failAt)

\* the metadata the write step gives the target: mode and owner of the
\* repository layer, mtime of the backup
IntendedMetadata(backup, layers) ==
    [backup EXCEPT !.mode = layers[Len(layers)].file.mode,
                   !.uid = layers[Len(layers)].file.uid,
                   !.gid = layers[Len(layers)].file.gid]

ApplyResult(s, outcome, saved, absorbed, checked, fix, wrote) ==
    [slot |-> s, ret |-> "nil", outcome |-> outcome, saved |-> saved,
     absorbed |-> absorbed, checked |-> checked, fix |-> fix, wrote |-> wrote]

\* step 5, second half: the rendered content is written and the metadata
\* applied
ApplyWritten(c, layers, w, fault) ==
    IF FailAt(fault, "install") = "WriteFile" \/ ~w.ok
    THEN [err |-> TRUE, to |-> c.slot.target]
    ELSE ApplyFilePermissions(IntendedMetadata(c.slot.backup, layers), w.file,
                              FailAt(fault, "install"))

ApplyInstalled(c, modified, md) ==
    ApplyResult([c.slot EXCEPT !.target = md.to],
                IF md.err THEN "SkippedError" ELSE "Applied",
                c.firstEncounter, c.absorbed, ~c.firstEncounter, modified, ~md.err)

\* variant: what a failing layer left in the accumulator is written all the same
ApplyRenderedPartial(c, layers, modified, rendered, fault, now) ==
    IF rendered.err
    THEN ApplyResult([c.slot EXCEPT !.target =
                         WriteFile(c.slot.target, rendered.content, WriteFilePerm, now).file],
                     "SkippedError", c.firstEncounter, c.absorbed,
                     ~c.firstEncounter, modified, TRUE)
    ELSE ApplyInstalled(c, modified,
            ApplyWritten(c, layers,
                WriteFile(c.slot.target, rendered.content, WriteFilePerm, now), fault))

ApplyRendered(c, layers, modified, rendered, fault, now) ==
    IF rendered.err
    THEN ApplyResult(c.slot, "SkippedError", c.firstEncounter, c.absorbed,
                     ~c.firstEncounter, modified, FALSE)
    ELSE ApplyInstalled(c, modified,
            ApplyWritten(c, layers,
                WriteFile(c.slot.target, rendered.content, WriteFilePerm, now), fault))

\* step 4: the integrity check, skipped on the first encounter
ApplyChecked(c, layers, withForce, cmp, fault, now) ==
    IF cmp.err
    THEN ApplyResult(c.slot, "SkippedError", c.firstEncounter, c.absorbed,
                     FALSE, FALSE, FALSE)
    ELSE IF cmp.newer /\ ~withForce
    THEN ApplyResult(c.slot, "SkippedUserModified", c.firstEncounter, c.absorbed,
                     TRUE, FALSE, FALSE)
    ELSE ApplyRendered(c, layers, cmp.newer,
            Render(c.slot.backup.content, layers, 1, FailAt(fault, "render")), fault, now)

ApplyStep4(c, layers, withForce, fault, now) ==
    IF c.err
    THEN ApplyResult(c.slot, "SkippedError", FALSE, c.absorbed, FALSE, FALSE, FALSE)
    ELSE ApplyChecked(c, layers, withForce,
            IF c.firstEncounter THEN [newer |-> FALSE, err |-> FALSE]
            ELSE IsNewerThan(c.slot.target, c.slot.backup), fault, now)

\* step 3: ensureBackup
ensureBackupCopied(b, cp) ==
    [slot |-> [b.slot EXCEPT !.backup = cp.to], err |-> cp.err,
     firstEncounter |-> TRUE, absorbed |-> b.absorbed]

ensureBackup(b, fault, now) ==
    IF IsManageableFile(b.slot.backup)
    THEN [slot |-> b.slot, err |-> FALSE, firstEncounter |-> FALSE, absorbed |-> b.absorbed]
    ELSE IF FailAt(fault, "backup") = "MkdirAll"
    THEN [slot |-> b.slot, err |-> TRUE, firstEncounter |-> TRUE, absorbed |-> b.absorbed]
    ELSE ensureBackupCopied(b,
            CopyFile(b.slot.target, b.slot.backup, FailAt(fault, "backup"), now))

\* step 2: the target must be a regular file or a symlink
ApplyStep2(b, layers, withForce, fault, now) ==
    IF b.err
    THEN ApplyResult(b.slot, "SkippedError", FALSE, FALSE, FALSE, FALSE, FALSE)
    ELSE IF ~IsManageableFile(b.slot.target)
    THEN ApplyResult(b.slot, "SkippedError", FALSE, b.absorbed, FALSE, FALSE, FALSE)
    ELSE ApplyStep4(ensureBackup(b, fault, now), layers, withForce, fault, now)

\* step 1: absorbDistroUpdate
absorbDistroUpdateCopied(s, cp, fault) ==
    [slot |-> [s EXCEPT !.backup = cp.to,
                        !.sidecar = IF cp.err \/ FailAt(fault, "absorb") = "Remove"
                                    THEN @ ELSE NoFile],
     err |-> cp.err, absorbed |-> ~cp.err]

absorbDistroUpdate(s, fault, now) ==
    IF IsManageableFile(s.sidecar)
    THEN absorbDistroUpdateCopied(s,
            CopyFile(s.sidecar, s.backup, FailAt(fault, "absorb"), now), fault)
    ELSE [slot |-> s, err |-> FALSE, absorbed |-> FALSE]

\* Apply(file, withForce): the reconciliation of one config file
Apply(s, layers, withForce, fault, now) ==
    ApplyStep2(absorbDistroUpdate(s, fault, now), layers, withForce, fault, now)

\* HandleOrphanedBackupFile: restore the backup over the target, then
\* delete the backup
HandleOrphanRestored(s, cp) ==
    IF cp.err
    THEN ApplyResult([s EXCEPT !.target = cp.to], "SkippedError",
                     FALSE, FALSE, FALSE, FALSE, FALSE)
    ELSE ApplyResult([s EXCEPT !.target = cp.to, !.backup = NoFile], "Restored",
                     FALSE, FALSE, FALSE, FALSE, TRUE)

HandleOrphanedBackupFile(s, fault, now) ==
    HandleOrphanRestored(s, CopyFile(s.backup, s.target, FailAt(fault, "restore"), now))

-----------------------------------------------------------------------------
(* The layered tool: main.go                                               *)

\* strings.HasPrefix(arg, "-") over the arguments the model passes
HasDashPrefix(arg) == arg \in {"-f", "--force", "-s", "--short", "-x"}

\* the argument loop of commandApply in the first version of main.go, where
\* --force is the only option
RECURSIVE ParseApplyArgsFirst(_, _, _)
ParseApplyArgsFirst(args, i, acc) ==
    IF i > Len(args) THEN acc
    ELSE IF HasDashPrefix(args[i])
    THEN IF args[i] = "--force"
         THEN ParseApplyArgsFirst(args, i + 1, [acc EXCEPT !.withForce = TRUE])
         ELSE [acc EXCEPT !.unrecognized = TRUE]
    ELSE ParseApplyArgsFirst(args, i + 1,
            [acc EXCEPT !.withFiles = TRUE, !.targetFiles = @ \cup {args[i]}])

\* variant: the argument loop notes an unrecognized option and goes on
RECURSIVE ParseApplyArgsLenient(_, _, _)
ParseApplyArgsLenient(args, i, acc) ==
    IF i > Len(args) THEN [acc EXCEPT !.unrecognized = FALSE]
    ELSE IF HasDashPrefix(args[i])
    THEN ParseApplyArgsLenient(args, i + 1,
            IF args[i] \in {"-f", "--force"} THEN [acc EXCEPT !.withForce = TRUE] ELSE acc)
    ELSE ParseApplyArgsLenient(args, i + 1,
            [acc EXCEPT !.withTargets = TRUE, !.targets = @ \cup {args[i]}])

\* the argument loop of commandApply; an unrecognized option returns at once
RECURSIVE ParseApplyArgs(_, _, _)
ParseApplyArgs(args, i, acc) ==
    IF i > Len(args) THEN acc
    ELSE IF HasDashPrefix(args[i])
    THEN IF args[i] \in {"-f", "--force"}
         THEN ParseApplyArgs(args, i + 1, [acc EXCEPT !.withForce = TRUE])
         ELSE [acc EXCEPT !.unrecognized = TRUE]
    ELSE ParseApplyArgs(args, i + 1,
            [acc EXCEPT !.withTargets = TRUE, !.targets = @ \cup {args[i]}])

\* the loop over the config files
RECURSIVE ApplyFiles(_, _, _, _, _, _, _)
RECURSIVE ApplyFilesApplied(_, _, _, _, _, _, _, _)
ApplyFilesApplied(files, i, st, rp, opts, fault, now, r) ==
    ApplyFiles(files, i + 1,
               [fs |-> Put(st.fs, files[i], r.slot),
                entries |-> Append(st.entries,
                               ReportEntry(files[i], "file", st.fs[files[i]], r,
                                           IF fault.entry = i THEN fault ELSE NoFault))],
               rp, opts, fault, now)

\* variant: the force option is parsed but not handed to Apply
ApplyFilesUnforced(files, i, st, rp, opts, fault, now) ==
    IF i > Len(files) THEN st
    ELSE IF opts.withTargets /\ files[i] \notin opts.targets
    THEN ApplyFiles(files, i + 1, st, rp, opts, fault, now)
    ELSE ApplyFilesApplied(files, i, st, rp, opts, fault, now,
            Apply(st.fs[files[i]], Layers(rp, files[i]), FALSE,
                  IF fault.entry = i THEN fault ELSE NoFault, now))

ApplyFiles(files, i, st, rp, opts, fault, now) ==
    IF i > Len(files) THEN st
    ELSE IF opts.withTargets /\ files[i] \notin opts.targets
    THEN ApplyFiles(files, i + 1, st, rp, opts, fault, now)
    ELSE ApplyFilesApplied(files, i, st, rp, opts, fault, now,
            Apply(st.fs[files[i]], Layers(rp, files[i]), opts.withForce,
                  IF fault.entry = i THEN fault ELSE NoFault, now))

\* the loop over the orphaned backups
RECURSIVE ApplyOrphans(_, _, _, _, _, _)
RECURSIVE ApplyOrphansHandled(_, _, _, _, _, _, _)
ApplyOrphansHandled(orphans, i, st, opts, fault, now, r) ==
    ApplyOrphans(orphans, i + 1,
                 [fs |-> Put(st.fs, orphans[i], r.slot),
                  entries |-> Append(st.entries,
                                 ReportEntry(orphans[i], "orphan", st.fs[orphans[i]], r,
                                             IF fault.entry = i THEN fault ELSE NoFault))],
                 opts, fault, now)

\* variant: the cleanup handles every orphaned backup, selected or not
ApplyOrphansAll(orphans, i, st, opts, fault, now) ==
    IF i > Len(orphans) THEN st
    ELSE ApplyOrphansHandled(orphans, i, st, opts, fault, now,
            HandleOrphanedBackupFile(st.fs[orphans[i]],
                  IF fault.entry = i THEN fault ELSE NoFault, now))

ApplyOrphans(orphans, i, st, opts, fault, now) ==
    IF i > Len(orphans) THEN st
    ELSE IF opts.withTargets /\ orphans[i] \notin opts.targets
    THEN ApplyOrphans(orphans, i + 1, st, opts, fault, now)
    ELSE ApplyOrphansHandled(orphans, i, st, opts, fault, now,
            HandleOrphanedBackupFile(st.fs[orphans[i]],
                  IF fault.entry = i THEN fault ELSE NoFault, now))

\* EntityID of the declared group: "group:" + name
EntityID == "group:web"

\* entities.Scan: the entities the repository declares
ScanEntities(g) == IF g.defined THEN <<g>> ELSE <<>>

\* Group.checkExists: /etc/group cannot be read or the GID of the group's
\* line is no number, or the group's line is found or not
checkExists(g) ==
    IF g.unreadable THEN [exists |-> FALSE, gid |-> 0, err |-> TRUE]
    ELSE [exists |-> g.exists, gid |-> g.actual, err |-> FALSE]

\* groupadd with the declared GID, or with the next free one; the program
\* may exit with an error and change nothing
callGroupadd(g) ==
    IF g.locked THEN g
    ELSE [g EXCEPT !.exists = TRUE, !.actual = IF g.gid > 0 THEN g.gid ELSE 3]

\* groupmod --gid
callGroupmod(g) ==
    IF g.locked THEN g ELSE [g EXCEPT !.actual = IF g.gid > 0 THEN g.gid ELSE @]

\* variant: a diverging GID is fixed without asking for --force
GroupApplyFixes(g, withForce) ==
    IF checkExists(g).err THEN [group |-> g, outcome |-> "Error", calls |-> <<>>]
    ELSE IF ~checkExists(g).exists
    THEN [group |-> callGroupadd(g), outcome |-> "Created", calls |-> <<"groupadd">>]
    ELSE IF g.gid > 0 /\ g.gid # checkExists(g).gid
    THEN [group |-> callGroupmod(g), outcome |-> "Fixed", calls |-> <<"groupmod">>]
    ELSE [group |-> g, outcome |-> "Unchanged", calls |-> <<>>]

\* Group.Apply: create the group, or fix a diverging GID when forced; calls
\* are the programs invoked
GroupApply(g, withForce) ==
    IF checkExists(g).err THEN [group |-> g, outcome |-> "Error", calls |-> <<>>]
    ELSE IF ~checkExists(g).exists
    THEN [group |-> callGroupadd(g), outcome |-> "Created", calls |-> <<"groupadd">>]
    ELSE IF g.gid > 0 /\ g.gid # checkExists(g).gid
    THEN IF withForce
         THEN [group |-> callGroupmod(g), outcome |-> "Fixed", calls |-> <<"groupmod">>]
         ELSE [group |-> g, outcome |-> "Warned", calls |-> <<>>]
    ELSE [group |-> g, outcome |-> "Unchanged", calls |-> <<>>]

EntityEntry(a) ==
    [ReportEntry(EntityID, "entity",
                 [target |-> NoFile, backup |-> NoFile, sidecar |-> NoFile],
                 ApplyResult([target |-> NoFile, backup |-> NoFile, sidecar |-> NoFile],
                             a.outcome, FALSE, FALSE, FALSE, FALSE, FALSE),
                 NoFault)
     EXCEPT !.calls = a.calls]

\* variant: the entities are applied whatever targets were selected
ApplyEntitiesAll(ents, i, st, opts) ==
    IF i > Len(ents) THEN st
    ELSE [group |-> GroupApply(ents[i], opts.withForce).group,
          entries |-> Append(st.entries,
                             EntityEntry(GroupApply(ents[i], opts.withForce)))]

\* the loop over the declared entities
ApplyEntities(ents, i, st, opts) ==
    IF i > Len(ents) THEN st
    ELSE IF opts.withTargets /\ EntityID \notin opts.targets THEN st
    ELSE [group |-> GroupApply(ents[i], opts.withForce).group,
          entries |-> Append(st.entries,
                             EntityEntry(GroupApply(ents[i], opts.withForce)))]

commandApplyEntities(st, opts, e) ==
    [fs |-> st.fs, entries |-> e.entries, force |-> opts.withForce,
     unrecognized |-> FALSE, group |-> e.group]

commandApplyDone(st, opts) ==
    commandApplyEntities(st, opts,
        ApplyEntities(ScanEntities(group), 1, [group |-> group, entries |-> st.entries], opts))

commandApplyParsed(scan, cur, rp, opts, fault, now) ==
    IF opts.unrecognized
    THEN [fs |-> cur, entries |-> <<>>, force |-> opts.withForce, unrecognized |-> TRUE,
          group |-> group]
    ELSE commandApplyDone(
            ApplyOrphans(scan.orphanedBackupFiles, 1,
                ApplyFiles(scan.configFiles, 1, [fs |-> cur, entries |-> <<>>],
                           rp, opts, fault, now),
                opts, fault, now),
            opts)

commandApply(scan, cur, rp, args, fault, now) ==
    commandApplyParsed(scan, cur, rp,
        ParseApplyArgs(args, 1, [withForce |-> FALSE, withTargets |-> FALSE,
                                 targets |-> {}, unrecognized |-> FALSE]),
        fault, now)

\* ScanOrphanedBackupFile: what scan tells about an orphaned backup; the
\* target counts as modified when it is newer than the backup
ScanOrphanedBackupFile(s) ==
    [slot |-> s, strategy |-> "restore",
     assessment |-> IF IsNewerThan(s.target, s.backup).newer THEN "modified" ELSE "clean"]

\* the content RenderDiff compares the live target with: the layers applied
\* to the pristine content, or the backup itself when no layer is left
DiffIntended(s, layers, fault) ==
    IF Len(layers) = 0 THEN [err |-> s.backup.kind = "none", content |-> s.backup.content]
    ELSE Render(IF s.backup.kind = "none" THEN s.target.content ELSE s.backup.content,
                layers, 1, FailAt(fault, "diff"))

\* RenderDiff: (output, error) of the diff of one config file; the file
\* system is handed through untouched
RenderDiff(s, layers, fault) ==
    IF s.target.kind = "none" \/ DiffIntended(s, layers, fault).err
    THEN ApplyResult(s, "DiffError", FALSE, FALSE, FALSE, FALSE, FALSE)
    ELSE ApplyResult(s, IF DiffIntended(s, layers, fault).content = s.target.content
                        THEN "Same" ELSE "Differs",
                     FALSE, FALSE, FALSE, FALSE, FALSE)

\* the slot of a path given on the command line; nothing exists at a path
\* outside the managed ones
SlotAt(f, t) == IF t \in Targets THEN f[t] ELSE [target |-> NoFile, backup |-> NoFile,
                                                 sidecar |-> NoFile]

LayersAt(rp, t) == IF t \in Targets THEN Layers(rp, t) ELSE <<>>

StoreAt(f, t, slot) == IF t \in Targets THEN Put(f, t, slot) ELSE f

\* the loop of commandDiff over the config files to diff
RECURSIVE DiffFiles(_, _, _, _, _)
\* variant: the first failing diff ends the command
DiffFilesRenderedStops(files, i, st, rp, fault, r) ==
    IF r.outcome = "DiffError"
    THEN [fs |-> StoreAt(st.fs, files[i], r.slot),
          entries |-> Append(st.entries,
                         ReportEntry(files[i], "diff", SlotAt(st.fs, files[i]), r,
                                     IF fault.entry = i THEN fault ELSE NoFault))]
    ELSE DiffFiles(files, i + 1,
              [fs |-> StoreAt(st.fs, files[i], r.slot),
               entries |-> Append(st.entries,
                              ReportEntry(files[i], "diff", SlotAt(st.fs, files[i]), r,
                                          IF fault.entry = i THEN fault ELSE NoFault))],
              rp, fault)

\* the error is printed, the output written, and the loop goes on
DiffFilesRendered(files, i, st, rp, fault, r) ==
    DiffFiles(files, i + 1,
              [fs |-> StoreAt(st.fs, files[i], r.slot),
               entries |-> Append(st.entries,
                              ReportEntry(files[i], "diff", SlotAt(st.fs, files[i]), r,
                                          IF fault.entry = i THEN fault ELSE NoFault))],
              rp, fault)

\* variant: the diff installs what it rendered
DiffFilesInstalls(files, i, st, rp, fault) ==
    IF i > Len(files) THEN st
    ELSE DiffFilesRendered(files, i, st, rp, fault,
            [RenderDiff(SlotAt(st.fs, files[i]), LayersAt(rp, files[i]),
                        IF fault.entry = i THEN fault ELSE NoFault)
             EXCEPT !.slot.target.content =
                 IF DiffIntended(SlotAt(st.fs, files[i]), LayersAt(rp, files[i]), NoFault).err
                 THEN @
                 ELSE DiffIntended(SlotAt(st.fs, files[i]), LayersAt(rp, files[i]),
                                   NoFault).content])

DiffFiles(files, i, st, rp, fault) ==
    IF i > Len(files) THEN st
    ELSE DiffFilesRendered(files, i, st, rp, fault,
            RenderDiff(SlotAt(st.fs, files[i]), LayersAt(rp, files[i]),
                       IF fault.entry = i THEN fault ELSE NoFault))

\* commandDiff: without arguments every config file and every orphaned
\* backup is diffed, else every path given
commandDiff(scan, cur, rp, args, fault) ==
    DiffFiles(IF Len(args) = 0 THEN scan.configFiles \o scan.orphanedBackupFiles ELSE args,
              1, [fs |-> cur, entries |-> <<>>], rp, fault)

\* the argument loop of commandScan
RECURSIVE ParseScanArgs(_, _, _)
ParseScanArgs(args, i, acc) ==
    IF i > Len(args) THEN acc
    ELSE IF args[i] \in {"-s", "--short"}
    THEN ParseScanArgs(args, i + 1, [acc EXCEPT !.isShort = TRUE])
    ELSE [acc EXCEPT !.unrecognized = TRUE]

\* the lines commandScan prints for the config files
ScanFiles(files, cur) ==
    [i \in 1..Len(files) |->
        ReportEntry(files[i], "scan-file", cur[files[i]],
                    ApplyResult(cur[files[i]], "Listed", FALSE, FALSE, FALSE, FALSE, FALSE),
                    NoFault)]

\* the lines commandScan prints for the orphaned backups
ScanOrphans(orphans, cur) ==
    [i \in 1..Len(orphans) |->
        ReportEntry(orphans[i], "scan-orphan", cur[orphans[i]],
                    ApplyResult(ScanOrphanedBackupFile(cur[orphans[i]]).slot,
                                ScanOrphanedBackupFile(cur[orphans[i]]).assessment,
                                FALSE, FALSE, FALSE, FALSE, FALSE),
                    NoFault)]

commandScanParsed(scan, cur, opts) ==
    IF opts.unrecognized THEN [fs |-> cur, entries |-> <<>>, unrecognized |-> TRUE]
    ELSE [fs |-> cur,
          entries |-> ScanFiles(scan.configFiles, cur)
                      \o (IF opts.isShort THEN <<>>
                          ELSE ScanOrphans(scan.orphanedBackupFiles, cur)),
          unrecognized |-> FALSE]

commandScan(scan, cur, args) ==
    commandScanParsed(scan, cur,
        ParseScanArgs(args, 1, [isShort |-> FALSE, unrecognized |-> FALSE]))

-----------------------------------------------------------------------------
(* State machine                                                           *)

NoArgs == <<>>

NoReport ==
    [cmd |-> "none", args |-> NoArgs, force |-> FALSE, fatal |-> FALSE,
     unrecognized |-> FALSE, entries |-> <<>>, writer |-> [t \in Targets |-> "never"]]

Slot(t, b, p) == [target |-> t, backup |-> b, sidecar |-> p]

RepoFile(script, c, t) == [holoscript |-> script, file |-> RegularFile(c, 416, 0, 1000, t)]

\* the sites and operations at which one invocation may meet an I/O failure
WalkFaults ==
    {NoFault} \cup
    { [entry |-> 1, site |-> x[1], op |-> x[2]] :
        x \in { <<"backup", "MkdirAll">>, <<"backup", "Chmod">>, <<"absorb", "ReadFile">>,
                <<"absorb", "Remove">>, <<"install", "ReadFile">>, <<"install", "Chtimes">> } }

ApplyFaults ==
    {NoFault} \cup
    { [entry |-> 1, site |-> x[1], op |-> x[2]] :
        x \in { <<"backup", "Chmod">>, <<"absorb", "ReadFile">>, <<"absorb", "Remove">>,
                <<"render", "Exit">>, <<"install", "WriteFile">>, <<"install", "Chtimes">>,
                <<"restore", "Chtimes">> } }

\* the argument vectors of "holo apply" the model passes
ApplyArgs ==
    { <<>>, <<"--force">>, <<"/etc/b.conf">>, <<"-f", "/etc/a.conf">>,
      <<"/etc/a.conf", "-x">> }

\* an engine write whose time stamp stays in the file system takes a fresh mtime
Stamped(f, now) == \E t \in Targets :
    \/ f[t].target.kind # "none" /\ f[t].target.mtime = now
    \/ f[t].backup.kind # "none" /\ f[t].backup.mtime = now

InitFiles ==
    /\ clock = 1
    /\ fs = [t \in Targets |-> Slot(RegularFile(<<"A">>, 420, 0, 0, 0), NoFile, NoFile)]
    /\ repo = [t \in Targets |->
                 IF t = TargetSeq[1]
                 THEN <<RepoFile(FALSE, <<"B">>, 1), RepoFile(TRUE, <<"S">>, 1)>>
                 ELSE <<RepoFile(FALSE, <<"B">>, 1)>>]
    /\ repoRoot = "dir"
    /\ repoUnreadable = {}
    /\ lastWriter = [t \in Targets |-> "never"]
    /\ reconciled = [t \in Targets |-> "no"]
    /\ report = NoReport

\* nothing of the repository was visited by hand, no plugin was asked to scan
NoWalk == [names |-> <<>>, mode |-> "none", layer |-> <<>>]

NoScan ==
    [id |-> "none", err |-> FALSE, stderr |-> FALSE, lines |-> <<>>,
     result |-> [nil |-> TRUE, entities |-> <<>>]]

Idle == walked = NoWalk /\ scanned = NoScan

\* no group is declared
NoGroup ==
    [defined |-> FALSE, gid |-> 0, exists |-> FALSE, actual |-> 0,
     unreadable |-> FALSE, locked |-> FALSE]

Init == tool = "holo-apply" /\ nested = FALSE /\ group = NoGroup /\ Idle /\ InitFiles

InitHolo == tool = "holo" /\ nested = FALSE /\ group = NoGroup /\ Idle /\ InitFiles

InitBoth == tool \in {"holo-apply", "holo"} /\ nested = FALSE /\ group = NoGroup /\ Idle /\ InitFiles

\* the repository declares a group with GID 2; /etc/group has it with GID 1
InitEntities ==
    /\ tool = "holo"
    /\ nested = FALSE
    /\ Idle
    /\ group = [defined |-> TRUE, gid |-> 2, exists |-> TRUE, actual |-> 1,
                unreadable |-> FALSE, locked |-> FALSE]
    /\ InitFiles

\* the repository holds a file for the path next to the first target that the
\* package manager uses for its side-car: the second target is that path
InitNested ==
    /\ tool = "holo-apply"
    /\ nested = TRUE
    /\ Idle
    /\ group = NoGroup
    /\ clock = 1
    /\ fs = [t \in Targets |->
               Slot(RegularFile(<<"A">>, 420, 0, 0, 0), NoFile,
                    IF t = TargetSeq[1] THEN RegularFile(<<"A">>, 420, 0, 0, 0) ELSE NoFile)]
    /\ repo = [t \in Targets |->
                 IF t = TargetSeq[1]
                 THEN <<RepoFile(FALSE, <<"B">>, 1), RepoFile(TRUE, <<"S">>, 1)>>
                 ELSE <<RepoFile(FALSE, <<"B">>, 1)>>]
    /\ repoRoot = "dir"
    /\ repoUnreadable = {}
    /\ lastWriter = [t \in Targets |-> "never"]
    /\ reconciled = [t \in Targets |-> "no"]
    /\ report = NoReport

(* the environment: administrator, package manager, repository maintainer *)

UserEdit(t) ==
    /\ clock < MaxClock
    /\ fs[t].target.kind = "file"
    /\ clock' = clock + 1
    /\ fs' = Synced([fs EXCEPT ![t].target.content = <<"C">>,
                               ![t].target.mtime = clock + 1], t)
    /\ lastWriter' = [lastWriter EXCEPT ![t] = IF @ = "never" THEN "never" ELSE "outside"]
    /\ report' = NoReport
    /\ UNCHANGED <<tool, nested, walked, scanned, group, repo, repoRoot, repoUnreadable, reconciled>>

UserRemove(t) ==
    /\ fs[t].target.kind # "none"
    /\ fs' = Synced([fs EXCEPT ![t].target = NoFile], t)
    /\ report' = NoReport
    /\ UNCHANGED <<tool, nested, walked, scanned, group, clock, repo, repoRoot, repoUnreadable, lastWriter, reconciled>>

\* the administrator replaces the file at the target path by a symbolic link
UserLink(t) ==
    /\ clock < MaxClock
    /\ fs[t].target.kind = "file"
    /\ clock' = clock + 1
    /\ fs' = Synced([fs EXCEPT ![t].target =
                          [kind |-> "symlink", content |-> <<"L">>, mode |-> 511,
                           uid |-> 0, gid |-> 0, mtime |-> clock + 1]], t)
    /\ lastWriter' = [lastWriter EXCEPT ![t] = IF @ = "never" THEN "never" ELSE "outside"]
    /\ report' = NoReport
    /\ UNCHANGED <<tool, nested, walked, scanned, group, repo, repoRoot, repoUnreadable, reconciled>>

PkgUpdate(t) ==
    /\ clock < MaxClock
    /\ fs[t].target.kind = "file"
    /\ fs[t].sidecar.kind = "none"
    /\ clock' = clock + 1
    /\ fs' = Synced([fs EXCEPT ![t].sidecar = RegularFile(<<"D">>, 420, 0, 0, clock + 1)], t)
    /\ report' = NoReport
    /\ UNCHANGED <<tool, nested, walked, scanned, group, repo, repoRoot, repoUnreadable, lastWriter, reconciled>>

RepoEdit(t) ==
    /\ clock < MaxClock
    /\ Len(repo[t]) > 0
    /\ clock' = clock + 1
    /\ repo' = [repo EXCEPT ![t][1].file.content = <<"E">>, ![t][1].file.mtime = clock + 1]
    /\ report' = NoReport
    /\ UNCHANGED <<tool, nested, walked, scanned, group, fs, repoRoot, repoUnreadable, lastWriter, reconciled>>

RepoBreak ==
    /\ repoRoot = "dir" /\ repoUnreadable = {}
    /\ \/ \E k \in {"none", "file"} : repoRoot' = k /\ UNCHANGED repoUnreadable
       \/ \E t \in Targets : repoUnreadable' = {t} /\ UNCHANGED repoRoot
    /\ report' = NoReport
    /\ UNCHANGED <<tool, nested, walked, scanned, group, clock, fs, repo, lastWriter, reconciled>>

\* what the reports of a run make of the history of target t
Reconciled(entries, t, was) ==
    IF \E k \in 1..Len(entries) : entries[k].target = t /\ entries[k].outcome = "Restored"
    THEN "no"
    ELSE IF \E k \in 1..Len(entries) : entries[k].target = t /\ entries[k].outcome = "Applied"
    THEN "yes"
    ELSE IF \E k \in 1..Len(entries) : entries[k].target = t /\ entries[k].kind = "file"
    THEN (IF was = "yes" THEN "yes" ELSE "tried")
    ELSE was

\* the invocation's effects: files, clock, history
Commit(r, cmd, args, force, fatal, unrecognized, now) ==
    /\ fs' = r.fs
    /\ report' = [cmd |-> cmd, args |-> args, force |-> force, fatal |-> fatal,
                  unrecognized |-> unrecognized, entries |-> r.entries,
                  writer |-> lastWriter]
    /\ Stamped(fs', now) => now <= MaxClock
    /\ clock' = IF Stamped(fs', now) THEN now ELSE clock
    /\ lastWriter' = [t \in Targets |->
                        IF \E k \in 1..Len(report'.entries) :
                              report'.entries[k].target = t /\ report'.entries[k].wrote
                        THEN "engine" ELSE lastWriter[t]]
    /\ reconciled' = [t \in Targets |-> Reconciled(report'.entries, t, reconciled[t])]

Fatal(cmd, args) ==
    [cmd |-> cmd, args |-> args, force |-> FALSE, fatal |-> TRUE,
     unrecognized |-> FALSE, entries |-> <<>>, writer |-> lastWriter]

(* holo-apply: main of the first tool *)

HoloApplyWalked(w, now) == Commit(w, "apply", NoArgs, FALSE, w.aborted, FALSE, now)

HoloApply(fault) ==
    /\ tool = "holo-apply"
    /\ report = NoReport
    /\ IF repoRoot # "dir"
       THEN /\ fault = NoFault
            /\ report' = Fatal("apply", NoArgs)
            /\ UNCHANGED <<fs, clock, lastWriter, reconciled>>
       ELSE HoloApplyWalked(
               Walk(WalkEntries(repo, repoUnreadable, 1), 1, fs, <<>>, fault, clock + 1),
               clock + 1)
    /\ UNCHANGED <<tool, nested, walked, scanned, group, repo, repoRoot, repoUnreadable>>

RepoRemove(t) ==
    /\ tool = "holo"
    /\ report = NoReport
    /\ Len(repo[t]) > 0
    /\ repo' = [repo EXCEPT ![t] = <<>>]
    /\ report' = NoReport
    /\ UNCHANGED <<tool, nested, walked, scanned, group, clock, fs, repoRoot, repoUnreadable, lastWriter, reconciled>>

(* holo: main of the layered tool *)

HoloApplyDone(c, args, now) ==
    /\ Commit(c, "apply", args, c.force, FALSE, c.unrecognized, now)
    /\ group' = c.group

HoloApplyCmd(args, fault) ==
    /\ tool = "holo"
    /\ report = NoReport
    /\ fault # NoFault => args = <<>>
    /\ IF ScanRepo(fs, repo, repoRoot, repoUnreadable).nil
       THEN /\ fault = NoFault
            /\ report' = Fatal("apply", args)
            /\ UNCHANGED <<fs, clock, lastWriter, reconciled, group>>
       ELSE HoloApplyDone(
               commandApply(ScanRepo(fs, repo, repoRoot, repoUnreadable), fs, repo,
                            args, fault, clock + 1),
               args, clock + 1)
    /\ UNCHANGED <<tool, nested, walked, scanned, repo, repoRoot, repoUnreadable>>

\* the argument vectors of "holo scan" and "holo diff" the model passes
ScanArgs == { <<>>, <<"--short">>, <<"-x">> }

DiffArgs == { <<>>, <<"/etc/b.conf">>, <<"-x", "/etc/b.conf">> }

DiffFaults ==
    {NoFault} \cup
    { [entry |-> 1, site |-> "diff", op |-> o] : o \in {"ReadFile", "Exit"} }

HoloScanCmd(args) ==
    /\ tool = "holo"
    /\ report = NoReport
    /\ IF ScanRepo(fs, repo, repoRoot, repoUnreadable).nil
       THEN /\ report' = Fatal("scan", args)
            /\ UNCHANGED <<fs, clock, lastWriter, reconciled>>
       ELSE Commit(commandScan(ScanRepo(fs, repo, repoRoot, repoUnreadable), fs, args),
                   "scan", args, FALSE, FALSE,
                   commandScan(ScanRepo(fs, repo, repoRoot, repoUnreadable), fs,
                               args).unrecognized,
                   clock + 1)
    /\ UNCHANGED <<tool, nested, walked, scanned, group, repo, repoRoot, repoUnreadable>>

HoloDiffCmd(args, fault) ==
    /\ tool = "holo"
    /\ report = NoReport
    /\ fault # NoFault => args = <<>>
    /\ IF ScanRepo(fs, repo, repoRoot, repoUnreadable).nil
       THEN /\ fault = NoFault
            /\ report' = Fatal("diff", args)
            /\ UNCHANGED <<fs, clock, lastWriter, reconciled>>
       ELSE Commit(commandDiff(ScanRepo(fs, repo, repoRoot, repoUnreadable), fs, repo,
                               args, fault),
                   "diff", args, FALSE, FALSE, FALSE, clock + 1)
    /\ UNCHANGED <<tool, nested, walked, scanned, group, repo, repoRoot, repoUnreadable>>

\* the process has exited and its messages have been read: the next command
\* or change of the system starts from a clean terminal
Exit ==
    /\ report # NoReport
    /\ report' = NoReport
    /\ UNCHANGED <<tool, nested, walked, scanned, group, clock, fs, repo, repoRoot, repoUnreadable, lastWriter, reconciled>>

Environment ==
    /\ report = NoReport
    /\ \/ \E t \in {TargetSeq[1]} : UserEdit(t)
       \/ \E t \in Targets : UserRemove(t)
       \/ \E t \in {TargetSeq[2]} : UserLink(t)
       \/ \E t \in {TargetSeq[1]} : PkgUpdate(t)
       \/ \E t \in {TargetSeq[1]} : RepoEdit(t)
       \/ RepoBreak

Next ==
    \/ Environment
    \/ Exit
    \/ \E fault \in WalkFaults : HoloApply(fault)

NextHolo ==
    \/ Environment
    \/ Exit
    \/ \E t \in {TargetSeq[2]} : RepoRemove(t)
    \/ \E args \in ApplyArgs, fault \in ApplyFaults : HoloApplyCmd(args, fault)
    \/ \E args \in ScanArgs : HoloScanCmd(args)
    \/ \E args \in DiffArgs, fault \in DiffFaults : HoloDiffCmd(args, fault)

NextBoth == Next \/ NextHolo

\* the argument vectors of "holo apply" that select among files and entities
EntityArgs ==
    { <<>>, <<"group:web">>, <<"--force", "group:web">>, <<"/etc/b.conf">>,
      <<"/etc/a.conf", "group:web">>, <<"group:web", "-x">> }

\* the administrator deletes the group
GroupDel ==
    /\ report = NoReport
    /\ group.exists
    /\ group' = [group EXCEPT !.exists = FALSE, !.actual = 0]
    /\ UNCHANGED <<tool, nested, walked, scanned, clock, fs, repo, repoRoot, repoUnreadable, lastWriter,
                   reconciled, report>>

NextEntities ==
    \/ Environment
    \/ Exit
    \/ GroupDel
    \/ \E t \in {TargetSeq[2]} : RepoRemove(t)
    \/ \E args \in EntityArgs : HoloApplyCmd(args, NoFault)

Spec == Init /\ [][Next]_vars

SpecHolo == InitHolo /\ [][NextHolo]_vars

SpecBoth == InitBoth /\ [][NextBoth]_vars

SpecNested == InitNested /\ [][Next]_vars

SpecEntities == InitEntities /\ [][NextEntities]_vars

\* the repository declares a group, with GID 2 or without a GID
InitGroup ==
    /\ tool = "holo"
    /\ nested = FALSE
    /\ Idle
    /\ group \in { [defined |-> TRUE, gid |-> g, exists |-> FALSE, actual |-> 0,
                    unreadable |-> FALSE, locked |-> FALSE] : g \in {0, 2} }
    /\ InitFiles

\* the administrator creates the group or changes its GID
GroupSet(gid) ==
    /\ report = NoReport
    /\ ~(group.exists /\ group.actual = gid)
    /\ group' = [group EXCEPT !.exists = TRUE, !.actual = gid]
    /\ UNCHANGED <<tool, nested, walked, scanned, clock, fs, repo, repoRoot, repoUnreadable,
                   lastWriter, reconciled, report>>

\* /etc/group loses or regains its read permission
GroupBreak ==
    /\ report = NoReport
    /\ group' = [group EXCEPT !.unreadable = ~@]
    /\ UNCHANGED <<tool, nested, walked, scanned, clock, fs, repo, repoRoot, repoUnreadable,
                   lastWriter, reconciled, report>>

\* the group database is locked against groupadd and groupmod, or unlocked
GroupLock ==
    /\ report = NoReport
    /\ group' = [group EXCEPT !.locked = ~@]
    /\ UNCHANGED <<tool, nested, walked, scanned, clock, fs, repo, repoRoot, repoUnreadable,
                   lastWriter, reconciled, report>>

NextGroup ==
    \/ Exit
    \/ GroupDel
    \/ \E gid \in {1, 2} : GroupSet(gid)
    \/ GroupBreak
    \/ GroupLock
    \/ \E args \in { <<>>, <<"--force">>, <<"/etc/b.conf">> } : HoloApplyCmd(args, NoFault)

SpecGroup == InitGroup /\ [][NextGroup]_vars

\* the argument vectors of "holo apply" with an option it does not know, in
\* the first, a middle and the last place, next to vectors it accepts
OptionArgs ==
    { <<>>, <<"-f">>, <<"/etc/a.conf">>,
      <<"-x">>, <<"-x", "--force">>, <<"--force", "-x", "group:web">>,
      <<"/etc/a.conf", "-f", "-x">>, <<"/etc/b.conf", "--short">> }

NextOptions ==
    \/ Exit
    \/ GroupDel
    \/ \E t \in {TargetSeq[1]} : UserEdit(t)
    \/ \E t \in {TargetSeq[2]} : RepoRemove(t)
    \/ \E args \in OptionArgs : HoloApplyCmd(args, NoFault)

SpecOptions == InitEntities /\ [][NextOptions]_vars

-----------------------------------------------------------------------------
(* Properties.  They read the history variable report: one entry per        *)
(* processed target, with the slot before (pre) and after (post).          *)

Entries == report.entries

Idx == 1..Len(report.entries)

ApplyRan == report.cmd = "apply" /\ ~report.fatal /\ ~report.unrecognized

\* the run met no I/O failure
NoFaultRun == \A j \in Idx : Entries[j].fault = NoFault

\* who had written the target last when entry k was processed
WriterAt(k) ==
    IF \E j \in 1..(k - 1) : Entries[j].target = Entries[k].target /\ Entries[j].wrote
    THEN "engine" ELSE report.writer[Entries[k].target]

\* entry k found a tracked regular target that was rewritten from outside
\* after the engine's last write, and met neither a side-car nor an I/O failure
DriftedAt(k) ==
    /\ Entries[k].kind = "file"
    /\ Entries[k].fault = NoFault
    /\ Entries[k].pre.target.kind = "file"
    /\ Entries[k].pre.backup.kind # "none"
    /\ Entries[k].pre.sidecar.kind = "none"
    /\ WriterAt(k) = "outside"

\* C1 (as stated): apply without force on a tracked target that was rewritten
\* from outside after the engine's last write leaves the target's content and
\* the backup's content unchanged and ends with SkippedUserModified.  Stated
\* here for the runs that meet no side-car and no I/O failure.
DriftBlocksOverwrite ==
    \A k \in Idx :
        (ApplyRan /\ ~report.force /\ DriftedAt(k))
        => /\ Entries[k].post.target.content = Entries[k].pre.target.content
           /\ Entries[k].post.backup.content = Entries[k].pre.backup.content
           /\ Entries[k].outcome = "SkippedUserModified"

\* C10 (as stated): a target modified outside the engine after the engine's
\* last write is never overwritten by apply without force, whatever happened
\* to the repository layers afterwards.
DriftNeverOverwritten ==
    \A k \in Idx :
        (ApplyRan /\ ~report.force /\ DriftedAt(k))
        => ~Entries[k].wrote /\ Entries[k].post.target = Entries[k].pre.target

FirstEncounterAt(k) ==
    /\ Entries[k].kind = "file"
    /\ Entries[k].fault = NoFault
    /\ Entries[k].pre.target.kind = "file"
    /\ Entries[k].pre.backup.kind = "none"

Rerun ==
    IF tool = "holo-apply"
    THEN Walk(WalkEntries(repo, repoUnreadable, 1), 1, fs, <<>>, NoFault, clock + 1)
    ELSE commandApply(ScanRepo(fs, repo, repoRoot, repoUnreadable), fs, repo,
                      report.args, NoFault, clock + 1)

\* every report the run made for target t says Applied, and there is one
AppliedIn(entries, t) ==
    /\ \E k \in 1..Len(entries) : entries[k].target = t
    /\ \A k \in 1..Len(entries) : entries[k].target = t => entries[k].outcome = "Applied"

\* C4: when a target was applied and the same apply is run again with the
\* repository, the target and the side-car as the first run left them, the
\* second run leaves the target's content and metadata and the backup as they
\* are and does not skip the target as user-modified.
ApplyIdempotent ==
    \A t \in Targets :
        (ApplyRan /\ AppliedIn(Entries, t))
        => /\ Rerun.fs[t].target = fs[t].target
           /\ Rerun.fs[t].backup = fs[t].backup
           /\ AppliedIn(Rerun.entries, t)

\* a tracked target that went through the integrity check and was written
ApplyIdempotentWitness ==
    \E k \in Idx :
        /\ ApplyRan /\ AppliedIn(Entries, Entries[k].target)
        /\ Entries[k].checked /\ Entries[k].wrote
        /\ Entries[k].post.target # Entries[k].pre.target

\* entry k found a side-car next to a target that already had a backup
SidecarAt(k) ==
    /\ Entries[k].kind = "file"
    /\ Entries[k].pre.target.kind = "file"
    /\ Entries[k].pre.backup.kind # "none"
    /\ Entries[k].pre.sidecar.kind # "none"

\* C5: when a side-car lies next to a tracked target, the integrity decision
\* is taken only after the side-car's content was copied into the backup and
\* the side-car removed (the removal itself may fail silently); an apply that
\* meets no I/O failure does all three.
AbsorbBeforeCheck ==
    \A k \in Idx :
        (ApplyRan /\ SidecarAt(k))
        => /\ Entries[k].checked
              => /\ Entries[k].absorbed
                 /\ Entries[k].post.backup.content = Entries[k].pre.sidecar.content
                 /\ Entries[k].fault.op # "Remove" => Entries[k].post.sidecar = NoFile
           /\ Entries[k].fault = NoFault => Entries[k].checked

\* the side-car was absorbed and the target then found modified by the user
AbsorbBeforeCheckWitness ==
    \E k \in Idx :
        /\ ApplyRan /\ SidecarAt(k)
        /\ Entries[k].outcome = "SkippedUserModified"
        /\ Entries[k].post.backup.content = <<"D">>
        /\ Entries[k].post.sidecar = NoFile

\* C6 (as stated): no engine operation writes a target path at which no
\* regular file or symlink exists immediately before that operation.
NeverCreatesTargetAlways ==
    \A k \in Idx :
        Entries[k].post.target # Entries[k].pre.target
        => IsManageableFile(Entries[k].pre.target)

\* C6 (amended): apply, with or without force, writes a target only where a
\* regular file or symlink exists; a target path without one is written only
\* by the restore of an orphaned backup, from that backup.
NeverCreatesTarget ==
    \A k \in Idx :
        Entries[k].post.target # Entries[k].pre.target
        => \/ IsManageableFile(Entries[k].pre.target)
           \/ /\ Entries[k].kind = "orphan"
              /\ Entries[k].pre.backup.kind # "none"
              /\ Entries[k].post.target.content = Entries[k].pre.backup.content

\* apply met a target path with nothing at it and left it that way
NeverCreatesTargetWitness ==
    \E k \in Idx :
        /\ ApplyRan /\ Entries[k].kind = "file"
        /\ Entries[k].pre.target = NoFile
        /\ Entries[k].post.target = NoFile
        /\ Entries[k].outcome = "SkippedError"

ErrorAt(k) ==
    /\ Entries[k].kind = "file"
    /\ Entries[k].outcome \in {"SkippedError", "SkippedUserModified"}

\* C7 (as stated): when apply on a target ends with a per-target error, the
\* target, its backup and its side-car are exactly as before the apply.
\* Stated here for the runs that meet no I/O failure.
ErrorLeavesStateAlways ==
    \A k \in Idx :
        (ApplyRan /\ ErrorAt(k) /\ NoFaultRun)
        => Entries[k].post = Entries[k].pre

\* C7 (amended): when apply on a target ends with a per-target error, the
\* target is exactly as before unless the failure struck while the target
\* itself was being written, and the backup and the side-car are exactly as
\* before when the target already had a backup and no side-car lay next to it.
ErrorLeavesState ==
    \A k \in Idx :
        (ApplyRan /\ ErrorAt(k))
        => /\ Entries[k].fault.site # "install"
              => Entries[k].post.target = Entries[k].pre.target
           /\ (Entries[k].pre.backup.kind # "none" /\ Entries[k].pre.sidecar.kind = "none")
              => /\ Entries[k].post.backup = Entries[k].pre.backup
                 /\ Entries[k].post.sidecar = Entries[k].pre.sidecar

\* an I/O failure before the installation, on a target that exists
ErrorLeavesStateWitness ==
    \E k \in Idx :
        /\ ApplyRan /\ ErrorAt(k)
        /\ Entries[k].fault.site \in {"backup", "absorb"}
        /\ Entries[k].pre.target.kind = "file"
        /\ Entries[k].post.target = Entries[k].pre.target

\* the targets an apply run was asked to process, and the reports due for each
SelectedTargets ==
    IF tool = "holo-apply" \/ \A i \in 1..Len(report.args) : HasDashPrefix(report.args[i])
    THEN Targets
    ELSE {t \in Targets : \E i \in 1..Len(report.args) : report.args[i] = t}

ReportsDue(t) ==
    IF tool = "holo-apply" THEN Len(repo[t])
    ELSE IF Len(Layers(repo, t)) > 0 THEN 1 ELSE 0

ReportsOf(t, from) ==
    Cardinality({j \in Idx : j >= from /\ Entries[j].target = t /\ Entries[j].kind = "file"})

Position(t) == CHOOSE i \in 1..Len(TargetSeq) : TargetSeq[i] = t

\* C8: in an apply run over a readable repository, a failure on one target
\* does not end the run: the failing entry is reported once, and every
\* selected target after it gets all its reports in the same run.
FailureNeverAborts ==
    (report.cmd = "apply" /\ ~report.unrecognized
     /\ repoRoot = "dir" /\ repoUnreadable = {})
    => /\ ~report.fatal
       /\ \A t \in SelectedTargets : ReportsOf(t, 1) = ReportsDue(t)
       /\ \A k \in Idx : \A t \in SelectedTargets :
             (ErrorAt(k) /\ Position(t) > Position(Entries[k].target))
             => ReportsOf(t, k + 1) = ReportsDue(t)

\* the first target failed on an I/O error, the second was still applied
FailureNeverAbortsWitness ==
    \E k, j \in Idx :
        /\ ApplyRan /\ ErrorAt(k) /\ Entries[k].fault # NoFault
        /\ j > k /\ Entries[j].target # Entries[k].target
        /\ Entries[j].outcome = "Applied" /\ Entries[j].wrote

\* C9 (as stated): when the repository root is missing or not a directory,
\* or an entry of the repository tree is unreadable, the command is not
\* executed and the invocation creates, modifies or deletes nothing.
FatalScanWritesNothing ==
    (report.cmd # "none" /\ (repoRoot # "dir" \/ repoUnreadable # {}))
    => /\ report.fatal
       /\ \A k \in Idx : Entries[k].post = Entries[k].pre

\* entry k of a forced apply found a tracked regular target newer than the
\* backup the integrity check compares it with
ForcedAt(k) ==
    /\ ApplyRan /\ report.force /\ tool = "holo"
    /\ Entries[k].kind = "file"
    /\ Entries[k].pre.target.kind = "file"
    /\ Entries[k].pre.backup.kind # "none"
    /\ Entries[k].pre.target.mtime > Entries[k].post.backup.mtime

Rendered(k) == Render(Entries[k].post.backup.content, Layers(repo, Entries[k].target), 1, "none")

\* C2 (as stated): apply with force on a target the integrity check finds
\* user-modified writes the rendered content, reports a fix and leaves the
\* backup's content unchanged.  Stated here for the runs that meet no I/O failure.
ForceOverridesAlways ==
    \A k \in Idx :
        (ForcedAt(k) /\ NoFaultRun)
        => /\ Entries[k].outcome = "Applied"
           /\ Entries[k].fix
           /\ Entries[k].post.target.content = Rendered(k).content
           /\ Entries[k].post.backup.content = Entries[k].pre.backup.content

\* C2 (amended): the same when no side-car lies next to the target; the
\* backup is then left exactly as it was, the fix is reported, and the
\* rendered content is on the target whenever the apply ends without error.
ForceOverrides ==
    \A k \in Idx :
        (ForcedAt(k) /\ Entries[k].pre.sidecar.kind = "none")
        => /\ Entries[k].fix
           /\ Entries[k].post.backup = Entries[k].pre.backup
           /\ Entries[k].fault = NoFault => Entries[k].outcome = "Applied"
           /\ Entries[k].outcome = "Applied"
              => Entries[k].post.target.content = Rendered(k).content

\* the administrator's edit was overwritten by a forced apply
ForceOverridesWitness ==
    \E k \in Idx :
        /\ ForcedAt(k) /\ Entries[k].pre.sidecar.kind = "none"
        /\ Entries[k].pre.target.content = <<"C">>
        /\ Entries[k].post.target.content = <<"B", "S">>
        /\ Entries[k].fix

\* C11 (as stated): between engine runs, a tracked regular-file target that
\* the engine has written has the mtime of its backup if and only if nothing
\* outside the engine has written it since the engine's last write.
MtimeEqualityInvariant ==
    \A t \in Targets :
        (fs[t].target.kind = "file" /\ fs[t].backup.kind = "file"
         /\ lastWriter[t] # "never")
        => (fs[t].target.mtime = fs[t].backup.mtime <=> lastWriter[t] = "engine")

\* C12 (as stated): a target has a backup exactly when an apply has been run
\* on it before (and no orphan restore has removed the backup since).
BackupIffApplyRan ==
    \A t \in Targets : fs[t].backup.kind # "none" <=> reconciled[t] # "no"

\* C12 (amended): a backup is there only if an apply has been run on the
\* target, and it is there whenever an apply of the target has ended Applied
\* and no orphan restore has removed it since; an apply that stopped before
\* the backup step leaves none.
BackupFromApply ==
    \A t \in Targets :
        /\ fs[t].backup.kind # "none" => reconciled[t] # "no"
        /\ reconciled[t] = "yes" => fs[t].backup.kind # "none"

\* a backup made by an apply that then failed, and one of an applied target
BackupFromApplyWitness ==
    /\ \E t \in Targets : reconciled[t] = "yes" /\ fs[t].backup.kind = "file"
    /\ \E t \in Targets : reconciled[t] = "tried" /\ fs[t].backup.kind = "none"

\* the last report a run made for target t
LastReportOf(t) ==
    CHOOSE k \in Idx : /\ Entries[k].target = t /\ Entries[k].kind = "file"
                       /\ \A j \in Idx : (Entries[j].target = t /\ Entries[j].kind = "file")
                                         => j <= k

\* C13 (as stated): an apply run in which no I/O operation fails ends, for
\* every selected target that has repository files, in one of Applied,
\* SkippedUserModified and SkippedError, and a target whose run ends in
\* SkippedUserModified or SkippedError has not been written by that run.
SkippedTargetNotWritten ==
    (ApplyRan /\ NoFaultRun /\ repoRoot = "dir" /\ repoUnreadable = {})
    => \A t \in SelectedTargets :
          ReportsOf(t, 1) > 0
          => /\ Entries[LastReportOf(t)].outcome
                    \in {"Applied", "SkippedUserModified", "SkippedError"}
             /\ Entries[LastReportOf(t)].outcome # "Applied"
                => \A j \in Idx : Entries[j].target = t => ~Entries[j].wrote

\* C14: a target that is a symbolic link is never found user-modified: the
\* integrity check answers "not newer" for it against its backup and
\* against every repository file, whatever the mtimes, and no apply run
\* skips a symlink target as user-modified.
SymlinkNeverUserModified ==
    /\ \A t \in Targets :
          IsFileInfoASymbolicLink(fs[t].target)
          => /\ ~IsNewerThan(fs[t].target, fs[t].backup).newer
             /\ \A i \in 1..Len(repo[t]) : ~IsNewerThan(fs[t].target, repo[t][i].file).newer
    /\ \A k \in Idx :
          (report.cmd = "apply" /\ Entries[k].kind = "file"
           /\ IsFileInfoASymbolicLink(Entries[k].pre.target))
          => Entries[k].outcome # "SkippedUserModified"

\* an apply without force went past the check on a symlink that is younger
\* than its backup
SymlinkNeverUserModifiedWitness ==
    \E k \in Idx :
        /\ ApplyRan /\ ~report.force /\ Entries[k].kind = "file"
        /\ IsFileInfoASymbolicLink(Entries[k].pre.target)
        /\ Entries[k].pre.backup.kind = "file"
        /\ Entries[k].pre.target.mtime > Entries[k].pre.backup.mtime
        /\ Entries[k].checked /\ Entries[k].outcome = "Applied"

\* C15: an apply of a target that already has a backup and no side-car
\* artifact leaves the backup as it was (existence, content, mode, owner,
\* group, mtime), whatever the outcome and whatever fails; and no apply of a
\* managed target ends without the backup it started with.
ExistingBackupPreserved ==
    \A k \in Idx :
        (report.cmd = "apply" /\ Entries[k].kind = "file"
         /\ Entries[k].pre.backup.kind # "none")
        => /\ Entries[k].post.backup.kind # "none"
           /\ Entries[k].pre.sidecar.kind = "none"
              => Entries[k].post.backup = Entries[k].pre.backup

\* the target was overwritten, and, in another run, found user-modified,
\* next to a backup that differs from it
ExistingBackupPreservedWitness ==
    \E k \in Idx :
        /\ ApplyRan /\ Entries[k].kind = "file"
        /\ Entries[k].pre.backup.kind = "file" /\ Entries[k].pre.sidecar.kind = "none"
        /\ Entries[k].pre.target.content # Entries[k].pre.backup.content
        /\ Entries[k].pre.target.mtime # Entries[k].pre.backup.mtime
        /\ Entries[k].wrote /\ Entries[k].outcome = "Applied"

\* the entry's injected failure, if any, is the removal of the side-car
RemoveFailsAt(k) == Entries[k].fault.site = "absorb" /\ Entries[k].fault.op = "Remove"

AbsorbedIn(entries, t) ==
    \E k \in 1..Len(entries) : entries[k].target = t /\ entries[k].absorbed

\* C17 (as stated): a side-car is copied into the backup by exactly one
\* entry of an apply run, it is gone from the live tree afterwards, and the
\* next apply, run with no new artifact placed, does not copy into the backup
\* again.
AbsorbedOnceAlways ==
    \A t \in Targets :
        (ApplyRan /\ AbsorbedIn(Entries, t))
        => /\ Cardinality({k \in Idx : Entries[k].target = t /\ Entries[k].absorbed}) = 1
           /\ fs[t].sidecar = NoFile
           /\ ~AbsorbedIn(Rerun.entries, t)

\* C17 (amended): a side-car that was copied into the backup and removed is
\* not copied again, neither by a later entry of the same run nor by the next
\* apply, and an apply of a target without side-car leaves the backup as it
\* is; a side-car whose removal failed stays and is copied again by the next
\* entry for its target, which leaves the backup's content as it is.
AbsorbedOnce ==
    ApplyRan
    => /\ \A k \in Idx :
             (Entries[k].absorbed /\ ~RemoveFailsAt(k))
             => /\ Entries[k].post.sidecar = NoFile
                /\ \A j \in Idx : (j > k /\ Entries[j].target = Entries[k].target)
                                    => ~Entries[j].absorbed
       /\ \A k \in Idx :
             (Entries[k].absorbed /\ RemoveFailsAt(k))
             => /\ Entries[k].post.sidecar = Entries[k].pre.sidecar
                /\ \A j \in Idx :
                      (j = k + 1 /\ Entries[j].target = Entries[k].target)
                      => /\ Entries[j].absorbed
                         /\ Entries[j].post.backup.content = Entries[k].post.backup.content
       /\ \A t \in Targets :
             fs[t].sidecar = NoFile
             => /\ ~AbsorbedIn(Rerun.entries, t)
                /\ fs[t].backup.kind # "none" => Rerun.fs[t].backup = fs[t].backup

\* a side-car was copied over an older backup and removed
AbsorbedOnceWitness ==
    \E k \in Idx :
        /\ ApplyRan /\ Entries[k].absorbed /\ Entries[k].fault = NoFault
        /\ Entries[k].pre.backup.kind = "file"
        /\ Entries[k].pre.backup.content # Entries[k].pre.sidecar.content
        /\ fs[Entries[k].target].backup.content = Entries[k].pre.sidecar.content
        /\ fs[Entries[k].target].sidecar = NoFile

\* C18: an apply entry whose target path holds neither a regular file nor a
\* symlink is reported as an error and nothing else is done for it: the
\* target path, the backup and the side-car are as before, no backup is made
\* and nothing is rendered or written.
UnmanageableTargetStops ==
    \A k \in Idx :
        (report.cmd = "apply" /\ Entries[k].kind = "file"
         /\ ~IsManageableFile(Entries[k].pre.target))
        => /\ Entries[k].outcome = "SkippedError"
           /\ Entries[k].post = Entries[k].pre
           /\ ~Entries[k].saved /\ ~Entries[k].absorbed
           /\ ~Entries[k].checked /\ ~Entries[k].wrote

\* the target was missing while a side-car lay next to it and a backup existed
UnmanageableTargetStopsWitness ==
    \E k \in Idx :
        /\ ApplyRan /\ Entries[k].kind = "file"
        /\ Entries[k].pre.target.kind = "none"
        /\ Entries[k].pre.backup.kind = "file" /\ Entries[k].pre.sidecar.kind = "file"
        /\ Entries[k].outcome = "SkippedError"
        /\ fs[Entries[k].target] = Entries[k].pre

\* C19 (as stated): after an apply run without I/O failure in which every
\* report for a regular-file target says Applied, the target's content is the backup's
\* content folded through the target's repository files in order: a plain
\* file replaces the accumulator, a .holoscript replaces it by the output of
\* the script run on it.
TargetIsRendered ==
    \A t \in Targets :
        (ApplyRan /\ NoFaultRun /\ AppliedIn(Entries, t) /\ fs[t].target.kind = "file")
        => fs[t].target.content
              = Render(fs[t].backup.content, Layers(repo, t), 1, "none").content

\* a program layer of entry k's target exits non-zero
LayerFailsAt(k) == Entries[k].fault.site = "render" /\ Entries[k].fault.op = "Exit"

ReadOnlyRan == report.cmd \in {"scan", "diff"} /\ ~report.fatal

\* C21: scan and diff are read-only: a step that runs holo scan or holo diff,
\* with or without arguments, on tracked and on orphaned targets, leaves
\* every target, backup, side-car artifact and repository file as it was;
\* the render done for a diff installs nothing.
ScanDiffReadOnly ==
    [][report'.cmd \in {"scan", "diff"} => fs' = fs /\ repo' = repo /\ clock' = clock]_vars

\* a diff rendered the layers of a reconciled target, found a difference,
\* and went on to an orphaned backup
ScanDiffReadOnlyWitness ==
    /\ report.cmd = "diff"
    /\ \E k \in 1..Len(Entries) :
          /\ Entries[k].outcome = "Differs"
          /\ Len(LayersAt(repo, Entries[k].target)) > 0
          /\ Entries[k].post.backup.kind = "file"
    /\ \E k \in 1..Len(Entries) :
          /\ Len(LayersAt(repo, Entries[k].target)) = 0
          /\ Entries[k].outcome \in {"Same", "Differs"}

\* the config files a diff has to treat: the paths given, or else every
\* config file followed by every orphaned backup
DiffSelected ==
    IF Len(report.args) > 0 THEN report.args
    ELSE ScanRepo(fs, repo, repoRoot, repoUnreadable).configFiles
         \o ScanRepo(fs, repo, repoRoot, repoUnreadable).orphanedBackupFiles

\* C22: diff errors are per target: a diff that fails for one target is
\* reported for that target only, and every selected target, before and after
\* the failing one, still gets its diff.
DiffErrorsPerTarget ==
    (report.cmd = "diff" /\ ~report.fatal) =>
        /\ Len(Entries) = Len(DiffSelected)
        /\ \A k \in 1..Len(Entries) :
              /\ Entries[k].target = DiffSelected[k]
              /\ Entries[k].outcome = "DiffError" <=>
                    RenderDiff(SlotAt(fs, DiffSelected[k]), LayersAt(repo, DiffSelected[k]),
                               Entries[k].fault).outcome = "DiffError"

\* the diff of the first target failed and the next one was still rendered
DiffErrorsPerTargetWitness ==
    /\ report.cmd = "diff"
    /\ Len(Entries) > 1
    /\ Entries[1].outcome = "DiffError"
    /\ Entries[2].outcome \in {"Same", "Differs"}

\* the targets a scan listed under the given heading
Listed(kind) == { Entries[k].target : k \in { j \in 1..Len(Entries) : Entries[j].kind = kind } }

\* C23: after every scan the orphaned backups are exactly the existing
\* backups whose target has no config file in that scan; no target is both a
\* config file and an orphan; and every config file has at least one layer.
OrphansAreSetDifference ==
    (report.cmd = "scan" /\ ~report.fatal /\ report.args = NoArgs) =>
        /\ Listed("scan-orphan") =
              { t \in Targets : fs[t].backup.kind # "none" } \ Listed("scan-file")
        /\ Listed("scan-file") \cap Listed("scan-orphan") = {}
        /\ \A t \in Listed("scan-file") : Len(Layers(repo, t)) >= 1

\* a scan listed a config file that has a backup next to an orphaned backup
OrphansAreSetDifferenceWitness ==
    /\ report.cmd = "scan"
    /\ Listed("scan-orphan") # {}
    /\ \E t \in Listed("scan-file") : fs[t].backup.kind # "none"

\* file f carries the content and metadata of file b; of a symbolic link
\* only the link target counts
CarriesOver(f, b) ==
    IF b.kind = "symlink" THEN f.kind = "symlink" /\ f.content = b.content
    ELSE f = b

\* a full scan reports every reconciled target that lost its layers as
\* orphaned, with the assessment of its target against its backup
OrphanReported ==
    (report.cmd = "scan" /\ ~report.fatal /\ report.args = NoArgs) =>
        \A t \in Targets :
            (reconciled[t] = "yes" /\ Len(repo[t]) = 0) =>
                \E k \in 1..Len(Entries) :
                    /\ Entries[k].target = t
                    /\ Entries[k].kind = "scan-orphan"
                    /\ Entries[k].outcome \in {"clean", "modified"}
                    /\ Entries[k].outcome = "modified" <=>
                          (fs[t].target.kind = "file" /\ fs[t].backup.kind # "none"
                           /\ fs[t].target.mtime > fs[t].backup.mtime)

\* the restores of the orphaned backups an apply run handled
RestoreAt(k) ==
    /\ ApplyRan
    /\ k \in 1..Len(Entries)
    /\ Entries[k].kind = "orphan"
    /\ Entries[k].fault = NoFault

\* C24 as stated: every restore puts the backup's content and metadata at
\* the target path
OrphanLifecycleAlways ==
    /\ OrphanReported
    /\ \A k \in 1..Len(Entries) :
          RestoreAt(k) =>
              /\ Entries[k].outcome = "Restored"
              /\ CarriesOver(Entries[k].post.target, Entries[k].pre.backup)
              /\ Entries[k].post.backup = NoFile

\* C24: orphan lifecycle: once a target was applied successfully and all its
\* layers are removed, the next scan reports it as orphaned, assessed clean or
\* modified against its backup; the restore copies the backup's content and
\* metadata to the target, unless a regular backup meets a symbolic link at
\* the target path, which stays in place; the backup is deleted and the
\* target is no longer reported as orphaned.
OrphanLifecycle ==
    /\ OrphanReported
    /\ \A k \in 1..Len(Entries) :
          RestoreAt(k) =>
              /\ Entries[k].outcome = "Restored"
              /\ IF Entries[k].pre.target.kind = "symlink"
                    /\ Entries[k].pre.backup.kind = "file"
                 THEN Entries[k].post.target = Entries[k].pre.target
                 ELSE CarriesOver(Entries[k].post.target, Entries[k].pre.backup)
              /\ Entries[k].post.backup = NoFile
              /\ fs[Entries[k].target].backup = NoFile
              /\ \A j \in 1..Len(ScanRepo(fs, repo, repoRoot, repoUnreadable).orphanedBackupFiles) :
                    ScanRepo(fs, repo, repoRoot, repoUnreadable).orphanedBackupFiles[j]
                        # Entries[k].target

\* an applied target lost its layers and was restored over an edited file
OrphanLifecycleWitness ==
    \E k \in 1..Len(Entries) :
        /\ RestoreAt(k)
        /\ report.writer[Entries[k].target] = "engine"
        /\ Entries[k].pre.target.kind = "file"
        /\ Entries[k].pre.target.content # Entries[k].pre.backup.content
        /\ Entries[k].pre.target.gid # Entries[k].pre.backup.gid
        /\ Entries[k].outcome = "Restored"

\* target t has a backup and no layer: its backup is orphaned
Orphaned(t) == fs[t].backup.kind # "none" /\ Len(Layers(repo, t)) = 0

\* the path arguments of the command that is about to report
NamedTargets == { report'.args[i] : i \in { j \in 1..Len(report'.args) :
                                               ~HasDashPrefix(report'.args[j]) } }

\* the step runs a command of the layered tool to its end
CommandStep == tool = "holo" /\ report = NoReport /\ report'.cmd \in {"apply", "scan", "diff"}

\* the next full scan still lists the orphaned backup of t
StillReported(t) ==
    (report'.cmd = "scan" /\ ~report'.fatal /\ report'.args = NoArgs) =>
        \E k \in 1..Len(report'.entries) :
            report'.entries[k].target = t /\ report'.entries[k].kind = "scan-orphan"

Enumerations(t) ==
    { [i \in 1..Len(repo[t]) |-> repo[t][p[i]]] : p \in Permutations(1..Len(repo[t])) }

\* the pristine content the layers of t are applied to
RenderBase(t) == IF fs[t].backup.kind = "none" THEN fs[t].target.content
                 ELSE fs[t].backup.content

\* C26: composition determinism: the layers of every config file are ordered
\* lexicographically by repository path, so whatever order the repository
\* directory entries are enumerated in, the scan yields the same layer
\* sequence and the render the same output.
CompositionDeterministic ==
    report = NoReport => \A t \in Targets : \A e \in Enumerations(t) :
        /\ Layers([repo EXCEPT ![t] = e], t) = Layers(repo, t)
        /\ \A i \in 1..(Len(Layers(repo, t)) - 1) :
              PathLess(RepoPath(Layers(repo, t)[i]), RepoPath(Layers(repo, t)[i + 1]), 1)
        /\ Render(RenderBase(t), Layers([repo EXCEPT ![t] = e], t), 1, "none")
              = Render(RenderBase(t), Layers(repo, t), 1, "none")

\* an apply composed two layers whose order of enumeration would have
\* changed the result had it been kept
CompositionDeterministicWitness ==
    \E k \in 1..Len(Entries) :
        /\ ApplyRan /\ tool = "holo"
        /\ Entries[k].outcome = "Applied"
        /\ \E e \in Enumerations(Entries[k].target) :
              /\ e # Layers(repo, Entries[k].target)
              /\ Render(Entries[k].post.backup.content, e, 1, "none").content
                    # Entries[k].post.target.content
              /\ Render(Entries[k].post.backup.content, SortLayers(e), 1, "none").content
                    = Entries[k].post.target.content

\* the files a copy may meet as its source or at its destination: those of
\* the state between two commands, and the absent file
StateFiles ==
    {NoFile} \cup UNION { {fs[t].target, fs[t].backup, fs[t].sidecar} : t \in Targets }
             \cup UNION { { repo[t][i].file : i \in 1..Len(repo[t]) } : t \in Targets }

\* the copy primitive of the running tool, without an I/O failure
CopyOf(from, to) ==
    IF tool = "holo" THEN CopyFile(from, to, "none", clock + 1)
    ELSE copyFile(from, to, "none", clock + 1)

\* the symbolic link a copy of link from creates at time now
FreshLink(from, now) ==
    [kind |-> "symlink", content |-> from.content, mode |-> 511, uid |-> 0, gid |-> 0,
     mtime |-> now]

\* C27 as stated: whatever is at the destination, the successful copy of a
\* regular file leaves the source's content and metadata there
CopiedAlways(from, to, r, now) ==
    ~r.err => IF from.kind = "file" THEN r.to = from ELSE r.to = FreshLink(from, now)

CopyFileResultAlways ==
    \A from \in StateFiles, to \in StateFiles :
        CopiedAlways(from, to, CopyOf(from, to), clock + 1)

\* what the result r of a successful copy has to be
Copied(from, to, r, now) ==
    ~r.err =>
        IF from.kind = "file"
        THEN /\ to.kind # "symlink" => r.to = from
             /\ (to.kind = "symlink" /\ tool = "holo") => r.to = to
        ELSE /\ tool = "holo"
             /\ from.kind = "symlink"
             /\ r.to = FreshLink(from, now)

\* C27: after the copy of a regular file succeeds on a destination that is
\* not a symbolic link, the destination's content, permission bits, owner,
\* group and mtime equal the source's; the layered tool leaves a symbolic
\* link at the destination in place; after the copy of a symbolic link
\* succeeds the destination is a new symbolic link with the same link target
\* and nothing of a regular file or link that was there before.
CopyFileResult ==
    report = NoReport =>
        \A from \in StateFiles, to \in StateFiles :
            Copied(from, to, CopyOf(from, to), clock + 1)

\* a run copied a regular target, owner and mode included, to its backup,
\* and the state holds a link and a file a further copy could replace
CopyFileResultWitness ==
    /\ \E k \in 1..Len(Entries) :
          /\ ApplyRan
          /\ Entries[k].saved
          /\ Entries[k].pre.target.kind = "file"
          /\ Entries[k].pre.target.mode # WriteFilePerm
          /\ Entries[k].post.backup = Entries[k].pre.target
    /\ \E from \in StateFiles, to \in StateFiles :
          /\ from.kind = "file" /\ to.kind = "file"
          /\ from.gid # to.gid /\ from.mtime # to.mtime /\ from.content # to.content
          /\ ~CopyOf(from, to).err

\* the operations of a copy that may fail
CopyOps == {"none", "ReadFile", "WriteFile", "Chmod", "Chown", "Chtimes"}

\* C28 as stated: a copy that returns leaves the destination as it was or
\* with the new content and the new metadata
WriteAllOrNothing ==
    \A from \in StateFiles, to \in StateFiles, op \in CopyOps :
        \/ CopyFile(from, to, op, clock + 1).to = to
        \/ CopyFile(from, to, op, clock + 1).to = CopyFile(from, to, "none", clock + 1).to

\* what the result r of a copy of regular file from to destination to, with
\* operation op failing, has to be
CopiedInOrder(from, to, op, r, now) ==
    /\ op \in {"ReadFile", "WriteFile"} => r.err /\ r.to = to
    /\ op = "none" => ~r.err /\ r.to = from
    /\ op \in {"Chmod", "Chown", "Chtimes"} =>
          r.err /\ r.to.content = from.content /\ r.to.mtime = now /\ r.to # from

\* C28: the metadata (mode, owner, group, mtime) is applied to a destination
\* only after its content write has succeeded: a copy of a regular file whose
\* read or write fails leaves the destination with its previous content and
\* metadata, and a successful one leaves the new content with the new
\* metadata; a copy whose Chmod, Chown or Chtimes fails returns an error with
\* the new content written and the metadata in part the previous or the
\* default one, the mtime being that of the write.
MetadataAfterContent ==
    report = NoReport =>
        \A from \in StateFiles, to \in StateFiles :
            (from.kind = "file" /\ to.kind \in {"none", "file"}) =>
                \A op \in CopyOps :
                    CopiedInOrder(from, to, op, CopyFile(from, to, op, clock + 1), clock + 1)

\* a run whose backup copy failed at Chmod left a backup with the target's
\* content and neither the target's mode nor its mtime
MetadataAfterContentWitness ==
    \E k \in 1..Len(Entries) :
        /\ ApplyRan /\ tool = "holo"
        /\ Entries[k].fault.site = "backup"
        /\ Entries[k].fault.op = "Chmod"
        /\ Entries[k].pre.backup = NoFile
        /\ Entries[k].post.backup.kind = "file"
        /\ Entries[k].post.backup.content = Entries[k].pre.target.content
        /\ Entries[k].post.backup.mode # Entries[k].pre.target.mode
        /\ Entries[k].post.backup.mtime # Entries[k].pre.target.mtime

\* what target t held when entry k of the coming report began: what the
\* previous entry of t left, or what the command found
HeldBefore(t, k) ==
    IF \E j \in 1..(k - 1) : report'.entries[j].target = t
    THEN report'.entries[CHOOSE j \in 1..(k - 1) :
                            /\ report'.entries[j].target = t
                            /\ \A i \in (j + 1)..(k - 1) : report'.entries[i].target # t].post
    ELSE fs[t]

\* C29: targets are reconciled one at a time and independently: what an
\* entry of an apply run finds as the live file and the backup of its target
\* is what the previous entry of the same target left, or what the run found
\* at its start; the pipelines of the other targets in between have created,
\* modified or deleted neither, also when one target's path is another's
\* with the side-car suffix.
TargetsIndependent ==
    [][(report = NoReport /\ report'.cmd = "apply") =>
         \A k \in 1..Len(report'.entries) :
             /\ report'.entries[k].pre.target = HeldBefore(report'.entries[k].target, k).target
             /\ report'.entries[k].pre.backup = HeldBefore(report'.entries[k].target, k).backup]_vars

\* the coming apply report selects the path or entity ID x
Selects(x) == NamedTargets = {} \/ x \in NamedTargets

\* the coming report has an entry of the given kind for x
Acted(x, kind) ==
    \E k \in 1..Len(report'.entries) :
        report'.entries[k].target = x /\ report'.entries[k].kind = kind

\* the step runs holo apply past its argument loop
ApplyStep ==
    /\ tool = "holo" /\ report = NoReport
    /\ report'.cmd = "apply" /\ ~report'.fatal /\ ~report'.unrecognized

\* target t is in the sequence of targets seq
InSeq(seq, t) == \E i \in 1..Len(seq) : seq[i] = t

\* C30: target selection: an apply with target arguments acts only on the
\* config files, orphaned backups and entities whose target path or entity ID
\* is among the arguments and leaves every other target, backup and entity
\* unchanged; an apply without target arguments acts on every scanned config
\* file, orphaned backup and entity.
TargetSelection ==
    [][ApplyStep =>
         /\ \A t \in Targets :
               /\ ~Selects(t) => fs'[t] = fs[t] /\ ~Acted(t, "file") /\ ~Acted(t, "orphan")
               /\ (Selects(t) /\ InSeq(ScanRepo(fs, repo, repoRoot, repoUnreadable).configFiles, t))
                     => Acted(t, "file")
               /\ (Selects(t)
                   /\ InSeq(ScanRepo(fs, repo, repoRoot, repoUnreadable).orphanedBackupFiles, t))
                     => Acted(t, "orphan")
         /\ ~Selects(EntityID) => group' = group /\ ~Acted(EntityID, "entity")
         /\ (Selects(EntityID) /\ group.defined) => Acted(EntityID, "entity")]_vars

\* an apply given a path and an entity ID applied that file and fixed or
\* created the group, while the other config file was there to apply
TargetSelectionWitness ==
    /\ ApplyRan
    /\ report.args = <<TargetSeq[1], EntityID>>
    /\ \E k \in 1..Len(Entries) : Entries[k].target = TargetSeq[1] /\ Entries[k].wrote
    /\ \E k \in 1..Len(Entries) : Entries[k].kind = "entity" /\ Entries[k].outcome = "Created"
    /\ Len(Layers(repo, TargetSeq[2])) > 0
    /\ fs[TargetSeq[2]].backup = NoFile

-----------------------------------------------------------------------------------------------------------------------------------------------------
(* holo-apply: the paths walkRepo derives from the path of a repository    *)
(* file.  A path is the sequence of its characters.                        *)

HoloRepo == <<"/", "h", "o", "l", "o", "/", "r", "e", "p", "o">>

HoloBackup == <<"/", "h", "o", "l", "o", "/", "b", "a", "c", "k", "u", "p">>

HoloscriptSuffix == <<".", "h", "o", "l", "o", "s", "c", "r", "i", "p", "t">>

\* strings.HasSuffix, strings.TrimSuffix
HasSuffix(s, suffix) ==
    /\ Len(s) >= Len(suffix)
    /\ SubSeq(s, Len(s) - Len(suffix) + 1, Len(s)) = suffix

TrimSuffix(s, suffix) ==
    IF HasSuffix(s, suffix) THEN SubSeq(s, 1, Len(s) - Len(suffix)) ELSE s

\* strings.Split(s, sep): the elements between the separators, empty ones
\* included
RECURSIVE Elements(_, _, _, _, _)
Elements(s, sep, i, cur, acc) ==
    IF i > Len(s) THEN Append(acc, cur)
    ELSE IF s[i] = sep THEN Elements(s, sep, i + 1, <<>>, Append(acc, cur))
    ELSE Elements(s, sep, i + 1, Append(cur, s[i]), acc)

\* strings.Join(elements, sep)
RECURSIVE JoinElements(_, _, _)
JoinElements(els, sep, i) ==
    IF i > Len(els) THEN <<>>
    ELSE IF i = Len(els) THEN els[i]
    ELSE els[i] \o <<sep>> \o JoinElements(els, sep, i + 1)

\* filepath.Clean, element by element: empty and "." elements are dropped,
\* ".." removes the element before it, at the root it is dropped, and at the
\* start of a relative path it stays
RECURSIVE CleanElements(_, _, _, _)
CleanElements(els, i, rooted, out) ==
    IF i > Len(els) THEN out
    ELSE IF els[i] = <<>> \/ els[i] = <<".">>
    THEN CleanElements(els, i + 1, rooted, out)
    ELSE IF els[i] # <<".", ".">>
    THEN CleanElements(els, i + 1, rooted, Append(out, els[i]))
    ELSE IF Len(out) > 0 /\ out[Len(out)] # <<".", ".">>
    THEN CleanElements(els, i + 1, rooted, SubSeq(out, 1, Len(out) - 1))
    ELSE IF rooted THEN CleanElements(els, i + 1, rooted, out)
    ELSE CleanElements(els, i + 1, rooted, Append(out, <<".", ".">>))

\* the cleaned elements of a non-empty path
Cleaned(s) == CleanElements(Elements(s, "/", 1, <<>>, <<>>), 1, s[1] = "/", <<>>)

Clean(s) ==
    IF s[1] = "/" THEN <<"/">> \o JoinElements(Cleaned(s), "/", 1)
    ELSE IF Cleaned(s) = <<>> THEN <<".">>
    ELSE JoinElements(Cleaned(s), "/", 1)

\* filepath.Join of two non-empty elements
Join(a, b) == Clean(a \o <<"/">> \o b)

\* how many leading elements two paths share
RECURSIVE CommonElements(_, _, _)
CommonElements(b, t, i) ==
    IF i > Len(b) \/ i > Len(t) THEN i - 1
    ELSE IF b[i] # t[i] THEN i - 1
    ELSE CommonElements(b, t, i + 1)

\* up from what is left of the base, then down what is left of the target
RelElements(b, t, n) ==
    [k \in 1..(Len(b) - n) |-> <<".", ".">>] \o SubSeq(t, n + 1, Len(t))

\* filepath.Rel of two absolute paths: the lexical way from basepath to
\* targpath, "." when they are the same
Rel(basepath, targpath) ==
    IF Cleaned(basepath) = Cleaned(targpath) THEN <<".">>
    ELSE JoinElements(
            RelElements(Cleaned(basepath), Cleaned(targpath),
                        CommonElements(Cleaned(basepath), Cleaned(targpath), 1)), "/", 1)

\* the suffix stays on the path the target is derived from
repoBasePathUntrimmed(repoPath) == repoPath

repoBasePath(repoPath) ==
    IF HasSuffix(repoPath, HoloscriptSuffix)
    THEN TrimSuffix(repoPath, HoloscriptSuffix)
    ELSE repoPath

applicationStrategy(repoPath) ==
    IF HasSuffix(repoPath, HoloscriptSuffix) THEN "applyProgram" ELSE "applyCopy"

\* walkRepo up to the first look at the target: nothing is derived for an
\* entry that is not a regular file
walkRepoPaths(repoPath, mode) ==
    IF mode # "file" THEN <<>>
    ELSE << [applicationStrategy |-> applicationStrategy(repoPath),
             targetPath |-> Join(<<"/">>, Rel(HoloRepo, repoBasePath(repoPath))),
             backupPath |-> Join(HoloBackup, Rel(HoloRepo, repoBasePath(repoPath)))] >>

\* the names the model gives to the files of the repository: with and
\* without the suffix, the suffix alone, behind dots and twice, and a name
\* that ends like the suffix without its dot
FileNames ==
    { <<"a">>, <<"b">>, <<"a", "h", "o", "l", "o", "s", "c", "r", "i", "p", "t">> } \cup
    { n \o HoloscriptSuffix :
        n \in { <<>>, <<"a">>, <<".">>, <<".", ".">>, <<"a">> \o HoloscriptSuffix } }

\* the deepest repository entry lies MaxDepth names below the repository root
MaxDepth == 3

\* the repository entries, each the sequence of names from the repository
\* root: a file at the root, or below a directory a, b or a.holoscript and up
\* to MaxDepth - 2 further directories a or b
RepoNames ==
    { <<f>> : f \in FileNames } \cup
    { <<x[1]>> \o x[2] \o <<x[3]>> :
        x \in { <<"a">>, <<"b">>, <<"a">> \o HoloscriptSuffix }
                 \X (UNION { [1..n -> { <<"a">>, <<"b">> }] : n \in 0..(MaxDepth - 2) })
                 \X FileNames }

RepoPathOf(names) == HoloRepo \o <<"/">> \o JoinElements(names, "/", 1)

\* filepath.Walk hands one entry of the repository to walkRepo: a regular
\* file, a directory or a symlink
WalkRepoEntry(names, mode) ==
    /\ tool = "holo-apply"
    /\ report = NoReport
    /\ walked' = [names |-> names, mode |-> mode,
                  layer |-> walkRepoPaths(RepoPathOf(names), mode)]
    /\ UNCHANGED <<tool, nested, scanned, group, clock, fs, repo, repoRoot, repoUnreadable,
                   lastWriter, reconciled, report>>

NextWalk ==
    \E names \in RepoNames, mode \in {"file", "dir", "symlink"} : WalkRepoEntry(names, mode)

SpecWalk == Init /\ [][NextWalk]_vars

-----
(* Scanner path mapping                                                    *)

\* the visited entry's name without the strategy suffix
Stem(names) == TrimSuffix(names[Len(names)], HoloscriptSuffix)

\* the repository-relative path with the suffix stripped
StrippedNames(names) == [names EXCEPT ![Len(names)] = Stem(names)]

RootedAt(root, names) == root \o <<"/">> \o JoinElements(StrippedNames(names), "/", 1)

\* the stripped name is a name of its own: not empty, not "." and not ".."
PlainName(names) == Stem(names) \notin { <<>>, <<".">>, <<".", ".">> }

FileWalked == walked.mode = "file" /\ Len(walked.layer) = 1

StrategyBySuffix ==
    walked.layer[1].applicationStrategy = "applyProgram"
        <=> HasSuffix(walked.names[Len(walked.names)], HoloscriptSuffix)

\* no repository file with another target path has this backup path
BackupPathOwned ==
    \A other \in RepoNames :
        walkRepoPaths(RepoPathOf(other), "file")[1].targetPath # walked.layer[1].targetPath
            => walkRepoPaths(RepoPathOf(other), "file")[1].backupPath
                  # walked.layer[1].backupPath

\* C31: every regular file of the repository yields one layer; its strategy
\* is the external program exactly when its path ends with the strategy
\* suffix and the copy otherwise; its target path is the repository-relative
\* path without that suffix rooted at "/", and its backup path is the same
\* relative path under the backup root, both as filepath.Join spells them
\* (cleaned), and character for character when the name without the suffix
\* is a name of its own; no other target path has the same backup path.
PathMapping ==
    walked.mode = "file" =>
        /\ Len(walked.layer) = 1
        /\ StrategyBySuffix
        /\ walked.layer[1].targetPath = Clean(RootedAt(<<>>, walked.names))
        /\ walked.layer[1].backupPath = Clean(RootedAt(HoloBackup, walked.names))
        /\ PlainName(walked.names) =>
              /\ walked.layer[1].targetPath = RootedAt(<<>>, walked.names)
              /\ walked.layer[1].backupPath = RootedAt(HoloBackup, walked.names)
        /\ BackupPathOwned

\* a script two directories down, below a directory whose name ends with
\* the suffix, is mapped
PathMappingWitness ==
    /\ FileWalked
    /\ walked.names = << <<"a">> \o HoloscriptSuffix, <<"b">>, <<"a">> \o HoloscriptSuffix >>
    /\ walked.layer[1].applicationStrategy = "applyProgram"
    /\ walked.layer[1].targetPath = <<"/", "a">> \o HoloscriptSuffix \o <<"/", "b", "/", "a">>
    /\ walked.layer[1].backupPath =
          HoloBackup \o <<"/", "a">> \o HoloscriptSuffix \o <<"/", "b", "/", "a">>

-----------------------------------------------------------------------------
(* Group entity apply                                                      *)

\* the entries the coming report has for entities
EntityEntries == SelectSeq(report'.entries, LAMBDA e : e.kind = "entity")

\* the step applies the declared group
GroupApplyRun == ApplyStep /\ Selects(EntityID) /\ group.defined

\* the declared GID is one to enforce and the group has another
GidDiffers == group.exists /\ group.gid > 0 /\ group.gid # group.actual

\* C32: group entity apply: when /etc/group can be read, a group that does
\* not exist is created with one groupadd; a group whose GID differs from a
\* declared GID greater than 0 is modified with one groupmod when force is
\* given, and without force no command is invoked, the group stays as it is
\* and the difference is reported; a group that matches, or for which no GID
\* is declared, gets no command.  No apply invokes more than one command.
GroupEntityApply ==
    [][GroupApplyRun =>
         /\ Len(EntityEntries) = 1
         /\ Len(EntityEntries[1].calls) <= 1
         /\ group.unreadable => EntityEntries[1].calls = <<>> /\ group' = group
         /\ (~group.unreadable /\ ~group.exists) =>
               /\ EntityEntries[1].calls = <<"groupadd">>
               /\ ~group.locked =>
                     /\ group'.exists
                     /\ group.gid > 0 => group'.actual = group.gid
         /\ (~group.unreadable /\ GidDiffers /\ report'.force) =>
               /\ EntityEntries[1].calls = <<"groupmod">>
               /\ ~group.locked => group'.actual = group.gid
         /\ (~group.unreadable /\ GidDiffers /\ ~report'.force) =>
               /\ EntityEntries[1].calls = <<>>
               /\ EntityEntries[1].outcome = "Warned"
               /\ group' = group
         /\ (~group.unreadable /\ group.exists /\ ~GidDiffers) =>
               /\ EntityEntries[1].calls = <<>>
               /\ group' = group]_vars

\* a forced apply has fixed the GID of the group with one groupmod
GroupEntityApplyWitness ==
    /\ report.cmd = "apply" /\ report.force
    /\ \E k \in 1..Len(Entries) :
          /\ Entries[k].kind = "entity"
          /\ Entries[k].outcome = "Fixed"
          /\ Entries[k].calls = <<"groupmod">>
    /\ group.exists /\ group.gid = 2 /\ group.actual = 2

-----------------------------------------------------------------------------
(* plugins: Plugin.Scan and the scan report it parses.  The report is the  *)
(* sequence of the characters the plugin wrote to its standard output.     *)

\* strings.TrimSpace
RECURSIVE TrimSpace(_)
TrimSpace(s) ==
    IF s = <<>> THEN s
    ELSE IF s[1] \in {" ", "\n"} THEN TrimSpace(Tail(s))
    ELSE IF s[Len(s)] \in {" ", "\n"} THEN TrimSpace(SubSeq(s, 1, Len(s) - 1))
    ELSE s

\* the first position from i on that holds one of the characters, or 0
RECURSIVE IndexAny(_, _, _)
IndexAny(s, chars, i) ==
    IF i > Len(s) THEN 0
    ELSE IF s[i] \in chars THEN i
    ELSE IndexAny(s, chars, i + 1)

\* \s*([^:]+) before the colon: the white space in front is not part of the
\* key unless nothing else is
RECURSIVE lineRxKey(_)
lineRxKey(k) == IF Len(k) > 1 /\ k[1] = " " THEN lineRxKey(Tail(k)) ELSE k

\* lineRx with the first colon at position c: a key of at least one
\* character, the colon, one space, a value of at least one character
lineRxAt(line, c) ==
    IF c >= 2 /\ Len(line) >= c + 2 /\ line[c + 1] = " "
    THEN << [key |-> lineRxKey(SubSeq(line, 1, c - 1)),
             value |-> SubSeq(line, c + 2, Len(line))] >>
    ELSE <<>>

\* lineRx.FindStringSubmatch for ^\s*([^:]+): (.+)\s*$
lineRx(line) == lineRxAt(line, IndexAny(line, {":"}, 1))

\* actionRx.FindStringSubmatch for ^([^()]+) \((.+)\)$ with the first
\* parenthesis at position q
actionRxAt(value, q) ==
    IF /\ q >= 3 /\ Len(value) >= q + 2
       /\ value[q] = "(" /\ value[q - 1] = " " /\ value[Len(value)] = ")"
    THEN << [verb |-> SubSeq(value, 1, q - 2), reason |-> SubSeq(value, q + 1, Len(value) - 1)] >>
    ELSE <<>>

Entity(id) ==
    [id |-> id, actionVerb |-> <<"Working on">>, actionReason |-> <<>>, infoLines |-> <<>>]

\* case key == "ACTION"
ScanAction(e, value, match) ==
    IF match = <<>> THEN [e EXCEPT !.actionVerb = value, !.actionReason = <<>>]
    ELSE [e EXCEPT !.actionVerb = match[1].verb, !.actionReason = match[1].reason]

\* one non-empty line of the report
ScanLine(st, match) ==
    IF match = <<>> THEN [st EXCEPT !.hadError = TRUE]
    ELSE IF match[1].key = <<"E", "N", "T", "I", "T", "Y">>
    THEN [st EXCEPT !.result = @ \o st.currentEntity,
                    !.currentEntity = <<Entity(match[1].value)>>]
    ELSE IF st.currentEntity = <<>> THEN [st EXCEPT !.hadError = TRUE]
    ELSE IF match[1].key = <<"A", "C", "T", "I", "O", "N">>
    THEN [st EXCEPT !.currentEntity[1] =
                        ScanAction(@, match[1].value,
                                   actionRxAt(match[1].value,
                                              IndexAny(match[1].value, {"(", ")"}, 1)))]
    ELSE [st EXCEPT !.currentEntity[1].infoLines = Append(@, match[1])]

\* for idx, line := range lines
RECURSIVE ScanLines(_, _, _)
ScanLines(lines, idx, st) ==
    IF idx > Len(lines) THEN st
    ELSE IF lines[idx] = <<>> THEN ScanLines(lines, idx + 1, st)
    ELSE ScanLines(lines, idx + 1, ScanLine(st, lineRx(lines[idx])))

Nil == [nil |-> TRUE, entities |-> <<>>]

\* variant: the entities of the well-formed lines are returned whatever went
\* wrong on the others
PluginScanParsedLenient(st) == [nil |-> FALSE, entities |-> st.result \o st.currentEntity]

\* store the last entity, report errors, ensure a non-nil return value
PluginScanParsed(st) ==
    IF st.hadError THEN Nil
    ELSE [nil |-> FALSE, entities |-> st.result \o st.currentEntity]

\* Plugin.Scan; the built-in plugin "files" returns what files.ScanRepo
\* returns; runScanOperation fails when the command does, not when it only
\* writes to its standard error
PluginScan(p, stdout) ==
    IF p.id = "files"
    THEN [nil |-> ScanRepo(fs, repo, repoRoot, repoUnreadable).nil,
          entities |-> ScanRepo(fs, repo, repoRoot, repoUnreadable).configFiles]
    ELSE IF p.err THEN Nil
    ELSE PluginScanParsed(
            ScanLines(Elements(TrimSpace(stdout), "\n", 1, <<>>, <<>>), 1,
                      [hadError |-> FALSE, currentEntity |-> <<>>, result |-> <<>>]))

\* the lines a plugin prints: entities, attributes, an action with and
\* without a reason, an empty line, and lines that are no "key: value"
ReportLines ==
    { <<"E", "N", "T", "I", "T", "Y", ":", " ", "a">>,
      <<" ", "E", "N", "T", "I", "T", "Y", ":", " ", "b">>,
      <<"k", ":", " ", "v">>,
      <<"A", "C", "T", "I", "O", "N", ":", " ", "x", " ", "(", "r", ")">>,
      <<"A", "C", "T", "I", "O", "N", ":", " ", "x">>,
      <<>>,
      <<"E", "N", "T", "I", "T", "Y", ":", "a">>,
      <<"E", "N", "T", "I", "T", "Y">>,
      <<":", " ", "v">> }

\* the longest report has MaxLines lines
MaxLines == 3

ScanReports == UNION { [1..n -> ReportLines] : n \in 0..MaxLines }

\* holo asks a plugin to scan: the command exits with or without an error,
\* with or without output on its standard error
PluginScanRun(id, err, stderr, lines) ==
    /\ tool = "holo"
    /\ scanned = NoScan
    /\ id = "files" => ~err /\ ~stderr /\ lines = <<>>
    /\ scanned' = [id |-> id, err |-> err, stderr |-> stderr, lines |-> lines,
                   result |-> PluginScan([id |-> id, err |-> err],
                                         JoinElements(lines, "\n", 1))]
    /\ UNCHANGED <<tool, nested, walked, group, clock, fs, repo, repoRoot, repoUnreadable,
                   lastWriter, reconciled, report>>

NextScan ==
    /\ scanned = NoScan
    /\ \E id \in {"files", "users-groups"}, err \in BOOLEAN, stderr \in BOOLEAN,
          lines \in ScanReports : PluginScanRun(id, err, stderr, lines)

SpecScan == InitHolo /\ [][NextScan]_vars

-----------------------------------------------------------------------------
(* Plugin scan result                                                      *)

\* the line has the form "key: value": a key of at least one character
\* without a colon, a colon, a space, a value of at least one character
KeyValue(line) ==
    \E c \in 2..(Len(line) - 2) :
        /\ line[c] = ":" /\ line[c + 1] = " "
        /\ \A j \in 1..(c - 1) : line[j] # ":"

\* the line is an ENTITY line: its key, white space in front aside, is ENTITY
EntityLine(line) ==
    \E w \in 0..(Len(line) - 9) :
        /\ \A j \in 1..w : line[j] = " "
        /\ SubSeq(line, w + 1, w + 8) = <<"E", "N", "T", "I", "T", "Y", ":", " ">>

\* what follows the first ": " of the line
ValueOf(line) ==
    SubSeq(line, (CHOOSE c \in 1..Len(line) : line[c] = ":" /\ \A j \in 1..(c - 1) : line[j] # ":") + 2,
           Len(line))

\* some line is not empty and no "key: value", or is an attribute line with
\* no ENTITY line before it
Malformed(lines) ==
    \E i \in 1..Len(lines) :
        /\ lines[i] # <<>>
        /\ \/ ~KeyValue(lines[i])
           \/ ~EntityLine(lines[i]) /\ \A j \in 1..(i - 1) : ~EntityLine(lines[j])

EntityLines(lines) == SelectSeq(lines, EntityLine)

\* C33: Scan of a plugin returns nil whenever the scan operation fails or a
\* line of the report is malformed (no "key: value", or an attribute line
\* before the first ENTITY line), whatever entities the other lines hold;
\* otherwise it returns a list that is not nil, with exactly one entity per
\* ENTITY line, in the order of the report.
PluginScanResult ==
    scanned.id = "users-groups" =>
        /\ (scanned.err \/ Malformed(scanned.lines)) => scanned.result.nil
        /\ ~(scanned.err \/ Malformed(scanned.lines)) =>
              /\ ~scanned.result.nil
              /\ Len(scanned.result.entities) = Len(EntityLines(scanned.lines))
              /\ \A i \in 1..Len(scanned.result.entities) :
                    scanned.result.entities[i].id = ValueOf(EntityLines(scanned.lines)[i])

\* a report with two entities and an attribute was parsed, although the
\* plugin wrote to its standard error
PluginScanResultWitness ==
    /\ scanned.id = "users-groups" /\ ~scanned.err /\ scanned.stderr
    /\ scanned.lines = << <<"E", "N", "T", "I", "T", "Y", ":", " ", "a">>,
                          <<"k", ":", " ", "v">>,
                          <<" ", "E", "N", "T", "I", "T", "Y", ":", " ", "b">> >>
    /\ ~scanned.result.nil
    /\ Len(scanned.result.entities) = 2
    /\ scanned.result.entities[1].id = <<"a">>
    /\ scanned.result.entities[1].infoLines = << [key |-> <<"k">>, value |-> <<"v">>] >>
    /\ scanned.result.entities[2].id = <<"b">>

-----------------------------------------------------------------------------
(* Recovery after an interrupted write                                     *)

\* entry k of the last apply wrote a regular target and was stopped before
\* the mtime was set
InterruptedAt(k) ==
    /\ ApplyRan /\ tool = "holo"
    /\ Entries[k].kind = "file"
    /\ Entries[k].fault.site = "install" /\ Entries[k].fault.op = "Chtimes"
    /\ Entries[k].pre.target.kind = "file"
    /\ Entries[k].outcome = "SkippedError"

\* the next apply of the target of entry k, with or without force
NextApply(k, withForce) ==
    Apply(fs[Entries[k].target], Layers(repo, Entries[k].target), withForce, NoFault,
          clock + 1)

\* C34: recovery after an interrupted write: when an apply was stopped after
\* the rendered content was written to a regular target and before the mtime
\* was set, the target holds the rendered content, the backup holds what it
\* held before (on a first encounter: what the target held), the next apply
\* without force finds the target user-modified and leaves it alone, and the
\* next apply with force writes the rendered content.
InterruptedWriteRecovery ==
    \A k \in Idx :
        InterruptedAt(k) =>
            /\ fs[Entries[k].target] = Entries[k].post
            /\ Entries[k].post.target.content = Rendered(k).content
            /\ Entries[k].post.target.mtime > Entries[k].post.backup.mtime
            /\ (Entries[k].pre.sidecar.kind = "none" /\ Entries[k].pre.backup.kind # "none")
                  => Entries[k].post.backup = Entries[k].pre.backup
            /\ (Entries[k].pre.sidecar.kind = "none" /\ Entries[k].pre.backup.kind = "none")
                  => Entries[k].post.backup.content = Entries[k].pre.target.content
            /\ NextApply(k, FALSE).outcome = "SkippedUserModified"
            /\ NextApply(k, FALSE).slot = Entries[k].post
            /\ NextApply(k, TRUE).outcome = "Applied"
            /\ NextApply(k, TRUE).slot.target.content = Rendered(k).content
            /\ NextApply(k, TRUE).slot.target.mtime = Entries[k].post.backup.mtime
            /\ NextApply(k, TRUE).slot.backup = Entries[k].post.backup

\* an apply over a tracked target was stopped between the write and the
\* mtime: the target holds the rendered content with the time of the write
InterruptedWriteRecoveryWitness ==
    \E k \in Idx :
        /\ InterruptedAt(k)
        /\ Entries[k].pre.backup.kind = "file"
        /\ Entries[k].pre.backup.content = <<"A">>
        /\ Entries[k].post.backup.content = <<"A">>
        /\ Entries[k].post.target.content = <<"B", "S">>
        /\ Entries[k].post.target.mtime = clock
        /\ NextApply(k, FALSE).outcome = "SkippedUserModified"

-----------------------------------------------------------------------------
(* The backup holds pristine content                                       *)

\* what the backup of t may hold after a step: what it held, or on a first
\* encounter what the target held, or what a side-car next to the target held
PristineFor(t) ==
    (IF fs[t].backup.kind # "none" THEN {fs[t].backup.content} ELSE {fs[t].target.content})
    \cup (IF fs[t].sidecar.kind # "none" THEN {fs[t].sidecar.content} ELSE {})

\* the content holds something that came out of a repository file
FromRepository(content) == \E i \in 1..Len(content) : content[i] \in {"B", "S", "E"}

RepoFileAt(k) == WalkEntries(repo, repoUnreadable, 1)[k]

\* entry k of a holo-apply run in which nothing failed met a regular target
\* with a side-car next to it and no backup
FirstEncounterWithSidecar(k) ==
    /\ tool = "holo-apply" /\ ApplyRan /\ NoFaultRun
    /\ FirstEncounterAt(k)
    /\ Entries[k].pre.sidecar.kind = "file"

UnrecognizedIn(args) ==
    \E i \in 1..Len(args) : HasDashPrefix(args[i]) /\ args[i] \notin {"-f", "--force"}

\* what the first version's argument loop makes of the arguments
ParsedFirst(args) ==
    ParseApplyArgsFirst(args, 1, [withForce |-> FALSE, withFiles |-> FALSE,
                                  targetFiles |-> {}, unrecognized |-> FALSE])

\* the step is a run of "holo apply"
ApplyCommandStep == report = NoReport /\ report'.cmd = "apply"

\* C37: an unrecognized option applies nothing: a run of "holo apply" whose
\* arguments hold an option other than -f and --force, in whatever place,
\* reports it and returns; no config file is applied, no orphaned backup is
\* handled, no entity is applied, and the files and the group are what they
\* were. A run without such an argument is not stopped this way. In the
\* first version of the command the same holds with --force as the only
\* option, so that -f stops the command there.
UnrecognizedOptionAppliesNothing ==
    /\ [][(ApplyCommandStep /\ UnrecognizedIn(report'.args))
          => /\ report'.unrecognized \/ report'.fatal
             /\ report'.entries = <<>>
             /\ fs' = fs /\ group' = group /\ clock' = clock
             /\ lastWriter' = lastWriter /\ reconciled' = reconciled]_vars
    /\ [][(ApplyCommandStep /\ ~UnrecognizedIn(report'.args))
          => ~report'.unrecognized]_vars
    /\ [](\A args \in OptionArgs :
            ParsedFirst(args).unrecognized
            <=> \E i \in 1..Len(args) : HasDashPrefix(args[i]) /\ args[i] # "--force")

\* "holo apply --force -x group:web" returned while a config file was not
\* applied yet, an orphaned backup was waiting and the group was missing
UnrecognizedOptionAppliesNothingWitness ==
    /\ report.cmd = "apply" /\ report.unrecognized
    /\ report.args = <<"--force", "-x", "group:web">>
    /\ report.entries = <<>>
    /\ group.defined /\ ~group.exists
    /\ fs[TargetSeq[1]].target.content = <<"C">>
    /\ Len(repo[TargetSeq[1]]) > 0
    /\ Len(repo[TargetSeq[2]]) = 0 /\ fs[TargetSeq[2]].backup.kind = "file"
====
